---- MODULE Spec2Model ----
(***************************************************************************)
(* Entity pooling of rust-ecs-integrated.                                  *)
(*                                                                         *)
(* Two pooling back ends live in the repository and an embedding program   *)
(* is built on one of them:                                                *)
(*   - Scene<T> (src/scene.rs): RefCell payload slots, a table of Spawn    *)
(*     handles, a free list, the in_use list of handles and one pointer    *)
(*     bucket per factory group;                                           *)
(*   - Pool<T> (src/pool.rs) driven by the messenger based ECS of          *)
(*     src/lib.rs: payload slots, a free list and the in_use list.         *)
(* The variable `variant` records which one the program was built on; the  *)
(* state of the other one is empty.                                        *)
(*                                                                         *)
(* Pointers are 0-based as in the source; TLA+ sequences are 1-based, so   *)
(* slot p of a vector v is v[p + 1].                                       *)
(***************************************************************************)
EXTENDS Integers, Sequences, FiniteSets, TLC

VARIABLES
    variant,     \* "scene" or "pool": the back end the program is built on
    factories,   \* Scene.factories: the registered factories, in order
    pool,        \* Scene.pool: payload of every slot
    spawns,      \* Scene.spawns: the handle last written for every slot
    free,        \* Scene.free: stack of free pointers
    in_use,      \* Scene.in_use: handles of the active entities
    groups,      \* Scene.groups: one pointer list per factory
    issued,      \* handles spawn has returned to the caller so far
    entities,    \* ECS.entities.pool (Pool<Entity<C>>): slot payloads
    p_free,      \* ECS.entities.free
    p_in_use,    \* ECS.entities.in_use
    result,      \* the last call and what it returned
    calls,       \* number of calls made since construction
    scenario,    \* how far the calls so far follow the capacity-2 scenario
    systems,     \* ECS.systems: the registered systems, in registration order
    cursor,      \* where ECS::update stands: system, snapshot, position in it
    hooks,       \* the Messenger of ECS::update (src/lib.rs): queued EventHooks
    log,         \* the calls ECS::update has made in the current tick, in order
    borrows,     \* the borrow state of the RefCell of every Scene slot
    itter_count  \* Scene.itter_count: the position of the Scene's Iterator

vars == <<variant, factories, pool, spawns, free, in_use, groups, issued,
          entities, p_free, p_in_use, result, calls, scenario,
          systems, cursor, hooks, log, borrows, itter_count>>

sceneVars == <<factories, pool, spawns, free, in_use, groups, issued>>
poolVars == <<entities, p_free, p_in_use>>
loopVars == <<systems, cursor, hooks, log>>

----------------------------------------------------------------------------
(* Bounds of the exploration *)

MaxSize == 2
MaxFactories == 2
MaxCalls == 5
MaxScenarioCalls == 5
MaxSystems == 2
MaxTicks == 2
MaxSceneTicks == 1
MaxEffects == 2
MaxBorrowCalls == 5
MaxQueryCalls == 3
MaxEntityCalls == 3
MaxOrderCalls == 6
MaxHealthCalls == 4
MaxIterSize == 3
MaxIterCalls == 5

----------------------------------------------------------------------------
(* Program constants *)

NameBytes == 16
SoldierHp == 10
TruckHp == 30
HealHp == 8

----------------------------------------------------------------------------
(* Vec helpers *)

\* Iterator::position(|x| *x == pointer): the 1-based index of the first element
\* equal to the pointer, 0 for None
Position(s, pointer) ==
    IF \E i \in 1..Len(s) : s[i] = pointer
    THEN CHOOSE i \in 1..Len(s) : s[i] = pointer /\ \A j \in 1..(i - 1) : s[j] # pointer
    ELSE 0

\* (mutant) Vec::swap_remove(index): the last element takes the place of the
\* removed one
VecRemove_Swap(s, i) ==
    IF i = Len(s) THEN SubSeq(s, 1, Len(s) - 1)
    ELSE [SubSeq(s, 1, Len(s) - 1) EXCEPT ![i] = s[Len(s)]]

\* Vec::remove(index): drops one element, keeps the order of the others
VecRemove(s, i) == SubSeq(s, 1, i - 1) \o SubSeq(s, i + 1, Len(s))

\* (mutant) the free list read from the front
VecLast_First(s) == s[1]

\* Vec::pop on a non-empty vector: the element it returns, the last one
VecLast(s) == s[Len(s)]

\* Vec::pop on a non-empty vector: what stays in the vector
VecPopped(s) == SubSeq(s, 1, Len(s) - 1)

\* the set of the elements of a vector
Range(s) == {s[i] : i \in 1..Len(s)}

----------------------------------------------------------------------------
(* Spawn handles (src/spawns.rs) *)

\* Name::default
DefaultName == [i \in 1..NameBytes |-> 0]

\* Spawn::new_name: the first 16 bytes of the name, zero filled
NewName(name) ==
    [i \in 1..NameBytes |-> IF i - 1 < Len(name) THEN name[i] ELSE 0]

\* Spawn::default
DefaultSpawn == [pointer |-> 0, group |-> 0, name |-> DefaultName]

\* impl PartialEq for Spawn: equality is by pointer only
SpawnEq(a, b) == a.pointer = b.pointer

\* the pointer fields of a vector of handles, in order
Pointers(handles) == [i \in 1..Len(handles) |-> handles[i].pointer]

----------------------------------------------------------------------------
(* Payloads: the Health of a GameObject (src/example/components.rs) *)

\* #[derive(Default)] Health
DefaultPayload == [active |-> FALSE, current_hp |-> 0, max_hp |-> 0]

\* Health::from_hp
FromHp(hp) == [active |-> TRUE, current_hp |-> hp, max_hp |-> hp]

\* Factory::build of the Soldier and of the Truck factory; neither reads the handle
Build(factory, spawn) ==
    IF factory = "Soldier" THEN FromHp(SoldierHp) ELSE FromHp(TruckHp)

----------------------------------------------------------------------------
(* Inputs the caller draws from *)

\* the name given to spawn, "a" as a byte string; spawn, destroy and wipe read no
\* name, so one name reaches every pointer bookkeeping the calls can produce
NameInputs == {<<97>>}

\* the factories an EcsBuilder registers: Soldier, Truck, Soldier, ...
Registered(n) == [i \in 1..n |-> IF i % 2 = 1 THEN "Soldier" ELSE "Truck"]

\* value a caller writes into current_hp through get_mut
HpInputs == {7}

\* handles the caller can pass: the ones spawn returned, and Spawn::default()
HeldHandles == issued \cup {DefaultSpawn}

NoResult == [op |-> "new", ret |-> "Ok", out |-> DefaultSpawn]

----------------------------------------------------------------------------
(* Scene<T> (src/scene.rs) *)

\* Scene::new: the state of a Scene of `size` slots with the given factories
SceneNew(size, facts) ==
    /\ factories = facts
    /\ pool = [i \in 1..size |-> DefaultPayload]
    /\ spawns = [i \in 1..size |-> [DefaultSpawn EXCEPT !.pointer = i - 1]]
    /\ free = [i \in 1..size |-> i - 1]
    /\ in_use = <<>>
    /\ groups = [g \in 1..Len(facts) |-> [i \in 1..size |-> 0]]
    /\ issued = {}
    /\ itter_count = 0

\* Scene::exists: in_use.contains(spawn), by Spawn equality
Exists(spawn) == \E i \in 1..Len(in_use) : SpawnEq(in_use[i], spawn)

\* (mutant) new_name writes the bytes of the name and leaves the rest of the
\* slot's previous name
SpawnHandle_Overlay(pointer, group, name) ==
    [pointer |-> pointer, group |-> group,
     name |-> [i \in 1..NameBytes |-> IF i - 1 < Len(name) THEN name[i]
                                      ELSE spawns[pointer + 1].name[i]]]

\* the handle spawn writes into the spawn table for the popped pointer
SpawnHandle(pointer, group, name) ==
    [pointer |-> pointer, group |-> group, name |-> NewName(name)]

\* (mutant) every spawn built by the first registered factory
SpawnPayload_FirstFactory(group, handle) == Build(factories[1], handle)

\* the payload spawn stores in the acquired slot: built by the factory
\* registered at index `group` from the new handle
SpawnPayload(group, handle) == Build(factories[group + 1], handle)

\* (mutant) Overflow already when a single pointer is left
FreeExhausted_OffByOne(f) == Len(f) <= 1

\* the None arm of `match self.free.pop()`
FreeExhausted(f) == f = <<>>

\* (mutant) the free list is popped before the group is validated
Spawn_PopFirst(name, group) ==
    /\ variant = "scene"
    /\ IF FreeExhausted(free)
       THEN /\ result' = [op |-> "spawn", ret |-> "Overflow", out |-> DefaultSpawn]
            /\ UNCHANGED sceneVars
       ELSE IF group >= Len(groups)
       THEN /\ result' = [op |-> "spawn", ret |-> "GroupNotFound", out |-> DefaultSpawn]
            /\ free' = VecPopped(free)
            /\ UNCHANGED <<factories, pool, spawns, in_use, groups, issued>>
       ELSE LET pointer == VecLast(free)
                handle == SpawnHandle(pointer, group, name)
            IN  /\ free' = VecPopped(free)
                /\ spawns' = [spawns EXCEPT ![pointer + 1] = handle]
                /\ in_use' = Append(in_use, handle)
                /\ groups' = [groups EXCEPT ![group + 1] = Append(@, pointer)]
                /\ pool' = [pool EXCEPT ![pointer + 1] = SpawnPayload(group, handle)]
                /\ issued' = issued \cup {handle}
                /\ result' = [op |-> "spawn", ret |-> "Ok", out |-> handle]
                /\ UNCHANGED factories
    /\ UNCHANGED <<variant, itter_count, poolVars>>

\* Scene::spawn
Spawn(name, group) ==
    /\ variant = "scene"
    /\ IF group >= Len(groups)
       THEN /\ result' = [op |-> "spawn", ret |-> "GroupNotFound", out |-> DefaultSpawn]
            /\ UNCHANGED sceneVars
       ELSE IF FreeExhausted(free)
       THEN /\ result' = [op |-> "spawn", ret |-> "Overflow", out |-> DefaultSpawn]
            /\ UNCHANGED sceneVars
       ELSE LET pointer == VecLast(free)
                handle == SpawnHandle(pointer, group, name)
            IN  /\ free' = VecPopped(free)
                /\ spawns' = [spawns EXCEPT ![pointer + 1] = handle]
                /\ in_use' = Append(in_use, handle)
                /\ groups' = [groups EXCEPT ![group + 1] = Append(@, pointer)]
                /\ pool' = [pool EXCEPT ![pointer + 1] = SpawnPayload(group, handle)]
                /\ issued' = issued \cup {handle}
                /\ result' = [op |-> "spawn", ret |-> "Ok", out |-> handle]
                /\ UNCHANGED factories
    /\ UNCHANGED <<variant, itter_count, poolVars>>

\* the group bucket after destroy: the first occurrence of the pointer removed
BucketAfterDestroy(bucket, pointer) ==
    LET g_index == Position(bucket, pointer)
    IN  IF g_index # 0 THEN VecRemove(bucket, g_index) ELSE bucket

\* (mutant) the pointer is not given back to the free list
FreeAfterDestroy_Leak(f, pointer) == f

\* the free list after destroy
FreeAfterDestroy(f, pointer) == Append(f, pointer)

\* (mutant) the pointer is pushed on the free list whether or not it was active,
\* and the bucket is edited before in_use is consulted
Destroy_Unguarded(spawn) ==
    /\ variant = "scene"
    /\ LET u_index == Position(Pointers(in_use), spawn.pointer)
       IN  /\ groups' = [groups EXCEPT ![spawn.group + 1] =
                             BucketAfterDestroy(@, spawn.pointer)]
           /\ in_use' = IF u_index # 0 THEN VecRemove(in_use, u_index) ELSE in_use
           /\ free' = FreeAfterDestroy(free, spawn.pointer)
           /\ UNCHANGED <<factories, pool, spawns, issued>>
           /\ result' = [op |-> "destroy",
                         ret |-> IF u_index # 0 THEN "Destroyed" ELSE "NotActive",
                         out |-> spawn]
    /\ UNCHANGED <<variant, itter_count, poolVars>>

\* Scene::destroy. It returns nothing; `ret` records whether the pointer was found
\* in in_use. The bucket indexed is the one of the handle's group, which is below
\* groups.len() for every handle spawn has returned; Spawn::default() has group 0
\* and reaches the indexing only when something is active, so with a factory.
Destroy(spawn) ==
    /\ variant = "scene"
    /\ LET u_index == Position(Pointers(in_use), spawn.pointer)
       IN  IF u_index # 0
           THEN /\ groups' = [groups EXCEPT ![spawn.group + 1] =
                                  BucketAfterDestroy(@, spawn.pointer)]
                /\ in_use' = VecRemove(in_use, u_index)
                /\ free' = FreeAfterDestroy(free, spawn.pointer)
                /\ UNCHANGED <<factories, pool, spawns, issued>>
                /\ result' = [op |-> "destroy", ret |-> "Destroyed", out |-> spawn]
           ELSE /\ UNCHANGED sceneVars
                /\ result' = [op |-> "destroy", ret |-> "NotActive", out |-> spawn]
    /\ UNCHANGED <<variant, itter_count, poolVars>>

\* (mutant) the whole pool is reset
Wiped_All(slots, pointer, default) == [i \in DOMAIN slots |-> default]

\* the slot vector after `self.pool[*pointer].replace(T::default())`
Wiped(slots, pointer, default) == [slots EXCEPT ![pointer + 1] = default]

\* Scene::wipe; indexing past the end of the pool panics before anything is written
Wipe(pointer) ==
    /\ variant = "scene"
    /\ IF pointer < Len(pool)
       THEN /\ pool' = Wiped(pool, pointer, DefaultPayload)
            /\ result' = [op |-> "wipe", ret |-> "Ok",
                          out |-> [DefaultSpawn EXCEPT !.pointer = pointer]]
       ELSE /\ pool' = pool
            /\ result' = [op |-> "wipe", ret |-> "panic",
                          out |-> [DefaultSpawn EXCEPT !.pointer = pointer]]
    /\ UNCHANGED <<factories, spawns, free, in_use, groups, issued>>
    /\ UNCHANGED <<variant, itter_count, poolVars>>

\* a RefCell nobody has borrowed
Unborrowed == [shared |-> 0, exclusive |-> 0]

\* no Ref and no RefMut of any slot is alive: what the borrow checker demands of
\* the caller of a `&mut self` method (spawn, destroy, wipe)
NoBorrows == \A i \in 1..Len(borrows) : borrows[i] = Unborrowed

\* RefCell::borrow fails when the cell is mutably borrowed
RefConflict(cell) == cell.exclusive > 0

\* (mutant) only another writer is in the way of borrow_mut
MutConflict_WritersOnly(cell) == cell.exclusive > 0

\* RefCell::borrow_mut fails when the cell is borrowed at all
MutConflict(cell) == cell.shared > 0 \/ cell.exclusive > 0

\* Scene::get_ref: self.pool[spawn.pointer].borrow(); the Ref stays with the
\* caller. Indexing past the end of the pool panics.
GetRef(spawn) ==
    /\ variant = "scene"
    /\ IF spawn.pointer >= Len(pool)
       THEN /\ result' = [op |-> "get_ref", ret |-> "panic", out |-> spawn]
            /\ UNCHANGED borrows
       ELSE IF RefConflict(borrows[spawn.pointer + 1])
       THEN /\ result' = [op |-> "get_ref", ret |-> "panic", out |-> spawn]
            /\ UNCHANGED borrows
       ELSE /\ result' = [op |-> "get_ref", ret |-> "Ok", out |-> spawn]
            /\ borrows' = [borrows EXCEPT ![spawn.pointer + 1].shared = @ + 1]
    /\ UNCHANGED <<variant, itter_count, sceneVars, poolVars>>

\* Scene::get_mut: self.pool[spawn.pointer].borrow_mut(); the RefMut stays with
\* the caller
GetMut(spawn) ==
    /\ variant = "scene"
    /\ IF spawn.pointer >= Len(pool)
       THEN /\ result' = [op |-> "get_mut", ret |-> "panic", out |-> spawn]
            /\ UNCHANGED borrows
       ELSE IF MutConflict(borrows[spawn.pointer + 1])
       THEN /\ result' = [op |-> "get_mut", ret |-> "panic", out |-> spawn]
            /\ UNCHANGED borrows
       ELSE /\ result' = [op |-> "get_mut", ret |-> "Ok", out |-> spawn]
            /\ borrows' = [borrows EXCEPT ![spawn.pointer + 1].exclusive = @ + 1]
    /\ UNCHANGED <<variant, itter_count, sceneVars, poolVars>>

\* a Ref of the slot goes out of scope
DropRef(pointer) ==
    /\ variant = "scene"
    /\ borrows[pointer + 1].shared > 0
    /\ borrows' = [borrows EXCEPT ![pointer + 1].shared = @ - 1]
    /\ result' = [op |-> "drop", ret |-> "Ok", out |-> [DefaultSpawn EXCEPT !.pointer = pointer]]
    /\ UNCHANGED <<variant, itter_count, sceneVars, poolVars>>

\* the RefMut of the slot goes out of scope
DropMut(pointer) ==
    /\ variant = "scene"
    /\ borrows[pointer + 1].exclusive > 0
    /\ borrows' = [borrows EXCEPT ![pointer + 1].exclusive = @ - 1]
    /\ result' = [op |-> "drop", ret |-> "Ok", out |-> [DefaultSpawn EXCEPT !.pointer = pointer]]
    /\ UNCHANGED <<variant, itter_count, sceneVars, poolVars>>

\* a write of current_hp through the RefMut the caller holds
WriteMut(pointer, hp) ==
    /\ variant = "scene"
    /\ borrows[pointer + 1].exclusive > 0
    /\ pool' = [pool EXCEPT ![pointer + 1].current_hp = hp]
    /\ result' = [op |-> "write", ret |-> "Ok", out |-> [DefaultSpawn EXCEPT !.pointer = pointer]]
    /\ UNCHANGED <<factories, spawns, free, in_use, groups, issued, borrows>>
    /\ UNCHANGED <<variant, itter_count, poolVars>>

\* Scene::search_components with a predicate true on the payloads of the slots in
\* `matches`: in_use is scanned in order, each slot is borrowed for the call of
\* the predicate, and the scan ends with the first slot whose borrow fails
\* (panic) or whose payload matches (Some); None when it runs through
SearchComponents(matches) ==
    /\ variant = "scene"
    /\ LET stops == {i \in 1..Len(in_use) :
                        \/ RefConflict(borrows[in_use[i].pointer + 1])
                        \/ in_use[i].pointer \in matches}
           first == CHOOSE i \in stops : \A j \in stops : i <= j
       IN  result' =
               IF stops = {}
               THEN [op |-> "search_components", ret |-> "None", out |-> DefaultSpawn]
               ELSE IF RefConflict(borrows[in_use[first].pointer + 1])
               THEN [op |-> "search_components", ret |-> "panic", out |-> in_use[first]]
               ELSE [op |-> "search_components", ret |-> "Some",
                     out |-> spawns[in_use[first].pointer + 1]]
    /\ UNCHANGED <<variant, itter_count, sceneVars, poolVars, borrows>>

----------------------------------------------------------------------------
(* Pool<Entity<C>> (src/pool.rs) under the ECS of src/lib.rs *)

\* Entity::default with ExampleComponents::default
DefaultEntity == [pointer |-> 0, value |-> 0]

\* Pool::new
PoolNew(size) ==
    /\ entities = [i \in 1..size |-> DefaultEntity]
    /\ p_free = [i \in 1..size |-> i - 1]
    /\ p_in_use = <<>>

\* Pool::exists
PoolExists(pointer) ==
    IF Len(p_in_use) < 1 THEN FALSE ELSE \E i \in 1..Len(p_in_use) : p_in_use[i] = pointer

\* the slot vector after Pool::wipe: `self.pool[*pointer] = T::default()`
PoolWiped(slots, pointer) == [slots EXCEPT ![pointer + 1] = DefaultEntity]

\* Pool::edit with the closure of ECS::spawn_entity: bounds checked, writes the pointer
EditPointer(slots, pointer) ==
    IF pointer < Len(slots)
    THEN [slots EXCEPT ![pointer + 1].pointer = pointer]
    ELSE slots

\* ECS::spawn_entity over Pool::spawn
SpawnEntity ==
    /\ variant = "pool"
    /\ IF p_free = <<>>
       THEN /\ result' = [op |-> "spawn_entity", ret |-> "Err", out |-> DefaultSpawn]
            /\ UNCHANGED <<variant, itter_count, poolVars>>
       ELSE LET index == VecLast(p_free)
            IN  /\ p_free' = VecPopped(p_free)
                /\ p_in_use' = Append(p_in_use, index)
                /\ entities' = EditPointer(PoolWiped(entities, index), index)
                /\ result' = [op |-> "spawn_entity", ret |-> "Ok",
                              out |-> [DefaultSpawn EXCEPT !.pointer = index]]
    /\ UNCHANGED <<variant, itter_count, sceneVars>>

\* ECS::destroy_entity over Pool::destroy
DestroyEntity(pointer) ==
    /\ variant = "pool"
    /\ LET index == Position(p_in_use, pointer)
       IN  IF index # 0
           THEN /\ p_in_use' = VecRemove(p_in_use, index)
                /\ p_free' = Append(p_free, pointer)
           ELSE UNCHANGED <<p_in_use, p_free>>
    /\ result' = [op |-> "destroy_entity",
                  ret |-> IF PoolExists(pointer) THEN "Destroyed" ELSE "NotActive",
                  out |-> [DefaultSpawn EXCEPT !.pointer = pointer]]
    /\ UNCHANGED <<variant, itter_count, entities, sceneVars>>

\* ECS::wipe_entity over Pool::wipe; indexing past the end of the pool panics
WipeEntity(pointer) ==
    /\ variant = "pool"
    /\ IF pointer < Len(entities)
       THEN /\ entities' = PoolWiped(entities, pointer)
            /\ result' = [op |-> "wipe_entity", ret |-> "Ok",
                          out |-> [DefaultSpawn EXCEPT !.pointer = pointer]]
       ELSE /\ entities' = entities
            /\ result' = [op |-> "wipe_entity", ret |-> "panic",
                          out |-> [DefaultSpawn EXCEPT !.pointer = pointer]]
    /\ UNCHANGED <<variant, itter_count, p_free, p_in_use, sceneVars>>

\* ECS::get_entity with a closure that writes components.value; Pool::edit skips
\* a pointer past the end of the pool
GetEntityWrite(pointer, value) ==
    /\ variant = "pool"
    /\ entities' = IF pointer < Len(entities)
                   THEN [entities EXCEPT ![pointer + 1].value = value]
                   ELSE entities
    /\ result' = [op |-> "get_entity", ret |-> "Ok",
                  out |-> [DefaultSpawn EXCEPT !.pointer = pointer]]
    /\ UNCHANGED <<variant, itter_count, p_free, p_in_use, sceneVars>>

----------------------------------------------------------------------------
(* ECS::update: over a Scene (src/ecs.rs) and over a Pool with a Messenger  *)
(* (src/lib.rs). The systems are the embedding program's: an update of the  *)
(* Scene variant receives the Scene and may make any call on it, an update  *)
(* of the Pool variant receives the entity's components and the Messenger.  *)
(* Every call a system's update makes is one step.                          *)

\* the systems registered, in order: MoveSystem, DamageSystem, ... on a Scene
\* (src/example/systems.rs), AddSystem, HealSystem, ... on a Pool (src/lib.rs)
RegisteredSystems(kind, n) ==
    [i \in 1..n |-> IF kind = "scene"
                    THEN (IF i % 2 = 1 THEN "MoveSystem" ELSE "DamageSystem")
                    ELSE (IF i % 2 = 1 THEN "AddSystem" ELSE "HealSystem")]

\* System::requirements of MoveSystem (has_position && has_movement) and of
\* DamageSystem (has_health && has_damage): the components are active in every
\* payload a factory builds and inactive in the default payload, as health is
Requirements(system, target) == target.active

\* ExampleEvents a system tells: Heal(8) and Say(..)
EventInputs == {[kind |-> "Heal", hp |-> HealHp], [kind |-> "Say", hp |-> 0]}

\* Components::event_handler of ExampleComponents
EventHandler(entity, event) ==
    IF event.kind = "Heal"
    THEN [entity EXCEPT !.value = @ + event.hp]
    ELSE entity

\* ECS::update is not running; `tick` update calls were made so far, in which
\* the systems made `effects` calls
IdleCursor(tick, effects) ==
    [state |-> "idle", sys |-> 0, snapshot |-> <<>>, at |-> 0, delivered |-> 0,
     effects |-> effects, tick |-> tick]

\* the loop enters the pass of system `sys` over the list `snapshot`
Pass(c, sys, snapshot) ==
    [c EXCEPT !.state = "pass", !.sys = sys, !.snapshot = snapshot, !.at = 0,
              !.delivered = 0]

\* one call made by ECS::update or by a system, as the log records it
LogEntry(call, sys, who, arg) == [call |-> call, sys |-> sys, who |-> who, arg |-> arg]

\* Scene::spawn_list / Scene::list_spawned: in_use.clone()
ListSpawned == in_use

\* (mutant) the list of the previous pass is used again
NextSnapshot_Reused(c) == c.snapshot

\* the list the inner loop of ECS::update iterates for the next system
NextSnapshot(c) == ListSpawned

\* (mutant) the loop leaves a pass after its first visit
PassComplete_Early(c) == c.at >= 1 \/ c.at = Len(c.snapshot)

\* (mutant) the loop is left only once the index is past the end of the list
PassComplete_PastEnd(c) == c.at > Len(c.snapshot)

\* the inner `for` has run out of handles
PassComplete(c) == c.at = Len(c.snapshot)

\* (mutant) the payload of the first slot, whatever the handle
VisitedPayload_First(spawn) == pool[1]

\* the payload `self.scene.get_mut(&spawn)` hands to requirements
VisitedPayload(spawn) == pool[spawn.pointer + 1]

\* ECS::update (src/ecs.rs) is called: the outer loop takes the first system and
\* the snapshot of its pass; without a system the call returns at once
UpdateBegin ==
    /\ variant = "scene"
    /\ cursor.state = "idle"
    /\ cursor.tick < MaxSceneTicks
    /\ IF systems = <<>>
       THEN /\ cursor' = IdleCursor(cursor.tick + 1, cursor.effects)
            /\ log' = <<>>
       ELSE /\ cursor' = Pass([cursor EXCEPT !.tick = @ + 1], 1, ListSpawned)
            /\ log' = <<LogEntry("spawn_list", 1, DefaultSpawn, ListSpawned)>>
    /\ UNCHANGED <<variant, itter_count, sceneVars, poolVars, result, calls, scenario,
                   systems, hooks, borrows>>

\* the inner loop takes the next handle of the snapshot, evaluates the system's
\* requirements on the payload of its slot and, when they hold, calls update
UpdateVisit ==
    /\ variant = "scene"
    /\ cursor.state = "pass"
    /\ cursor.at < Len(cursor.snapshot)
    /\ LET spawn == cursor.snapshot[cursor.at + 1]
           applies == Requirements(systems[cursor.sys], VisitedPayload(spawn))
       IN  /\ cursor' = [cursor EXCEPT !.at = @ + 1,
                                       !.state = IF applies THEN "update" ELSE "pass"]
           /\ log' = log \o <<LogEntry("requirements", cursor.sys, spawn, applies)>>
                         \o (IF applies
                             THEN <<LogEntry("update", cursor.sys, spawn, TRUE)>>
                             ELSE <<>>)
    /\ UNCHANGED <<variant, itter_count, sceneVars, poolVars, result, calls, scenario,
                   systems, hooks, borrows>>

\* the handles a system's update can pass to the Scene: its own and the ones
\* the Scene lists
SystemHandles == Range(cursor.snapshot) \cup Range(in_use)

\* one more call made by the system's update that is running
Effect == cursor.state = "update" /\ cursor.effects < MaxEffects

\* a system's update calls scene.spawn
SystemSpawn ==
    /\ Effect
    /\ \E name \in NameInputs, group \in 0..(Len(factories) - 1) :
          /\ Spawn(name, group)
          /\ cursor' = [cursor EXCEPT !.effects = @ + 1]
          /\ log' = Append(log, LogEntry("spawn", cursor.sys, result'.out, result'.ret))
    /\ UNCHANGED <<calls, scenario, systems, hooks, borrows>>

\* a system's update calls scene.destroy
SystemDestroy ==
    /\ Effect
    /\ \E spawn \in SystemHandles :
          /\ Destroy(spawn)
          /\ cursor' = [cursor EXCEPT !.effects = @ + 1]
          /\ log' = Append(log, LogEntry("destroy", cursor.sys, spawn, result'.ret))
    /\ UNCHANGED <<calls, scenario, systems, hooks, borrows>>

\* a system's update calls scene.wipe
SystemWipe ==
    /\ Effect
    /\ \E pointer \in 0..(Len(pool) - 1) :
          /\ Wipe(pointer)
          /\ cursor' = [cursor EXCEPT !.effects = @ + 1]
          /\ log' = Append(log, LogEntry("wipe", cursor.sys, result'.out, result'.ret))
    /\ UNCHANGED <<calls, scenario, systems, hooks, borrows>>

\* scene.get_mut(spawn) with a write of current_hp through the RefMut, which is
\* dropped before the next call
GetMutWrite(spawn, hp) ==
    /\ variant = "scene"
    /\ pool' = [pool EXCEPT ![spawn.pointer + 1].current_hp = hp]
    /\ result' = [op |-> "get_mut", ret |-> "Ok", out |-> spawn]
    /\ UNCHANGED <<factories, spawns, free, in_use, groups, issued>>
    /\ UNCHANGED <<variant, itter_count, poolVars>>

\* the handle the running update was called with
UpdatedSpawn == cursor.snapshot[cursor.at]

\* a system's update writes the payload of its entity, as MoveSystem and
\* DamageSystem do
SystemWrite ==
    /\ Effect
    /\ \E spawn \in {UpdatedSpawn}, hp \in HpInputs :
          /\ GetMutWrite(spawn, hp)
          /\ cursor' = [cursor EXCEPT !.effects = @ + 1]
          /\ log' = Append(log, LogEntry("get_mut", cursor.sys, spawn, hp))
    /\ UNCHANGED <<calls, scenario, systems, hooks, borrows>>

\* the system's update returns to the loop of ECS::update
SystemReturn ==
    /\ cursor.state = "update"
    /\ cursor' = [cursor EXCEPT !.state = "pass"]
    /\ UNCHANGED <<variant, itter_count, sceneVars, poolVars, result, calls, scenario,
                   systems, hooks, log, borrows>>

\* the inner loop is over: the outer loop takes the next system and the
\* snapshot of its pass, or ECS::update returns
UpdateNextSystem ==
    /\ variant = "scene"
    /\ cursor.state = "pass"
    /\ PassComplete(cursor)
    /\ IF cursor.sys < Len(systems)
       THEN /\ cursor' = Pass(cursor, cursor.sys + 1, NextSnapshot(cursor))
            /\ log' = Append(log, LogEntry("spawn_list", cursor.sys + 1, DefaultSpawn,
                                           NextSnapshot(cursor)))
       ELSE /\ cursor' = IdleCursor(cursor.tick, cursor.effects)
            /\ log' = log
    /\ UNCHANGED <<variant, itter_count, sceneVars, poolVars, result, calls, scenario,
                   systems, hooks, borrows>>

\* (mutant) tell puts the hook in front of the queue
Tell_Front(queue, sender, receiver, event) ==
    <<[sender |-> sender, receiver |-> receiver, event |-> event]>> \o queue

\* Messenger::tell: the hook is pushed at the end of the queue
Tell(queue, sender, receiver, event) ==
    Append(queue, [sender |-> sender, receiver |-> receiver, event |-> event])

\* (mutant) the queue is not cleared between two passes
Cleared_Kept(queue) == queue

\* Messenger::clear, at the start of every iteration of the outer loop
Cleared(queue) == <<>>

\* (mutant) a hook is handed over only when its receiver is active
EditHandler_ActiveOnly(slots, hook) ==
    IF hook.receiver < Len(slots) /\ PoolExists(hook.receiver)
    THEN [slots EXCEPT ![hook.receiver + 1] = EventHandler(@, hook.event)]
    ELSE slots

\* Pool::edit with the closure of the flush loop: the handler of the receiver's
\* components is called with the event, for a receiver below the pool's length
EditHandler(slots, hook) ==
    IF hook.receiver < Len(slots)
    THEN [slots EXCEPT ![hook.receiver + 1] = EventHandler(@, hook.event)]
    ELSE slots

\* ECS::update (src/lib.rs) is called: a new Messenger, then the outer loop takes
\* the first system, clears the queue and starts edit_all over in_use
PoolUpdateBegin ==
    /\ variant = "pool"
    /\ cursor.state = "idle"
    /\ cursor.tick < MaxTicks
    /\ hooks' = <<>>
    /\ IF systems = <<>>
       THEN /\ cursor' = IdleCursor(cursor.tick + 1, cursor.effects)
            /\ log' = <<>>
       ELSE /\ cursor' = Pass([cursor EXCEPT !.tick = @ + 1], 1, p_in_use)
            /\ log' = <<LogEntry("edit_all", 1, 0, p_in_use)>>
    /\ UNCHANGED <<variant, itter_count, sceneVars, poolVars, result, calls, scenario,
                   systems, borrows>>

\* Pool::edit_all takes the next pointer of in_use and calls the system's update
\* with the pointer field and the components of the entity in that slot
PoolUpdateVisit ==
    /\ variant = "pool"
    /\ cursor.state = "pass"
    /\ cursor.at < Len(cursor.snapshot)
    /\ LET index == cursor.snapshot[cursor.at + 1]
       IN  /\ cursor' = [cursor EXCEPT !.at = @ + 1, !.state = "update"]
           /\ log' = Append(log, LogEntry("update", cursor.sys,
                                          entities[index + 1].pointer, index))
    /\ UNCHANGED <<variant, itter_count, sceneVars, poolVars, result, calls, scenario,
                   systems, hooks, borrows>>

\* the slot whose entity the running update was called with
UpdatedIndex == cursor.snapshot[cursor.at]

\* a system's update writes the components it was given
SystemEdit ==
    /\ variant = "pool"
    /\ Effect
    /\ \E value \in HpInputs :
          /\ entities' = [entities EXCEPT ![UpdatedIndex + 1].value = value]
          /\ log' = Append(log, LogEntry("edit", cursor.sys,
                                         entities[UpdatedIndex + 1].pointer, value))
    /\ cursor' = [cursor EXCEPT !.effects = @ + 1]
    /\ UNCHANGED <<variant, itter_count, sceneVars, p_free, p_in_use, result, calls, scenario,
                   systems, hooks, borrows>>

\* a system's update calls tell with the pointer it was given as the sender; the
\* receiver is the first slot of the pool or a pointer past its end
SystemTell ==
    /\ variant = "pool"
    /\ Effect
    /\ \E receiver \in {0, Len(entities)}, event \in EventInputs :
          LET sender == entities[UpdatedIndex + 1].pointer
          IN  /\ hooks' = Tell(hooks, sender, receiver, event)
              /\ log' = Append(log, LogEntry("tell", cursor.sys, receiver,
                                             [sender |-> sender, event |-> event]))
    /\ cursor' = [cursor EXCEPT !.effects = @ + 1]
    /\ UNCHANGED <<variant, itter_count, sceneVars, poolVars, result, calls, scenario,
                   systems, borrows>>

\* the flush loop of ECS::update takes the next hook of the queue, once edit_all
\* has returned
Deliver ==
    /\ variant = "pool"
    /\ cursor.state = "pass"
    /\ PassComplete(cursor)
    /\ cursor.delivered < Len(hooks)
    /\ LET h == hooks[cursor.delivered + 1]
       IN  /\ entities' = EditHandler(entities, h)
           /\ log' = IF h.receiver < Len(entities)
                     THEN Append(log, LogEntry("event_handler", cursor.sys, h.receiver,
                                               [sender |-> h.sender, event |-> h.event]))
                     ELSE log
    /\ cursor' = [cursor EXCEPT !.delivered = @ + 1]
    /\ UNCHANGED <<variant, itter_count, sceneVars, p_free, p_in_use, result, calls, scenario,
                   systems, hooks, borrows>>

\* the flush loop is over: the outer loop takes the next system, clears the
\* queue and starts edit_all, or ECS::update returns and drops the Messenger
PoolUpdateNextSystem ==
    /\ variant = "pool"
    /\ cursor.state = "pass"
    /\ PassComplete(cursor)
    /\ cursor.delivered >= Len(hooks)
    /\ IF cursor.sys < Len(systems)
       THEN /\ hooks' = Cleared(hooks)
            /\ cursor' = Pass(cursor, cursor.sys + 1, p_in_use)
            /\ log' = Append(log, LogEntry("edit_all", cursor.sys + 1, 0, p_in_use))
       ELSE /\ hooks' = <<>>
            /\ cursor' = IdleCursor(cursor.tick, cursor.effects)
            /\ log' = log
    /\ UNCHANGED <<variant, itter_count, sceneVars, poolVars, result, calls, scenario,
                   systems, borrows>>

----------------------------------------------------------------------------
(* The scenario of the specification's section 8, followed call by call *)

\* "a", "b", "c", "d"
ScenarioNames == <<<<97>>, <<98>>, <<99>>, <<100>>>>

ScenarioOff == [step |-> -1, a |-> DefaultSpawn]

\* step k of the scenario is spawn(ScenarioNames[k], 0), but for the destroy(a)
\* before the last spawn
AfterSpawn(name, group) ==
    LET k == scenario.step
    IN  IF k \in {0, 1, 2} /\ group = 0 /\ name = ScenarioNames[k + 1]
        THEN [step |-> k + 1, a |-> IF k = 0 THEN result'.out ELSE scenario.a]
        ELSE IF k = 4 /\ group = 0 /\ name = ScenarioNames[4]
        THEN [step |-> 5, a |-> scenario.a]
        ELSE ScenarioOff

AfterDestroy(spawn) ==
    IF scenario.step = 3 /\ spawn = scenario.a
    THEN [step |-> 4, a |-> scenario.a]
    ELSE ScenarioOff

----------------------------------------------------------------------------
(* The program: construction, then any sequence of calls *)

\* an ECS with the given systems before its first update: nothing queued,
\* nothing logged, no slot borrowed
NoUpdate(registered) ==
    /\ systems = registered
    /\ cursor = IdleCursor(0, 0)
    /\ hooks = <<>>
    /\ log = <<>>
    /\ borrows = [i \in 1..Len(pool) |-> Unborrowed]

Init ==
    /\ variant \in {"scene", "pool"}
    /\ result = NoResult
    /\ scenario = [step |-> 0, a |-> DefaultSpawn]
    /\ calls = 0
    /\ \E size \in 0..MaxSize, n \in 0..MaxFactories :
          IF variant = "scene"
          THEN /\ SceneNew(size, Registered(n))
               /\ entities = <<>> /\ p_free = <<>> /\ p_in_use = <<>>
          ELSE /\ PoolNew(size)
               /\ n = 0
               /\ SceneNew(0, <<>>)
    /\ NoUpdate(<<>>)

\* one more call of the embedding program, while it has less than `bound` calls
\* behind it; it calls between two updates and holds no borrow across a call
Counted(bound) ==
    /\ calls < bound /\ calls' = calls + 1
    /\ cursor.state = "idle"
    /\ UNCHANGED <<loopVars, borrows>>

CallSpawn(names, groupInputs) ==
    \E name \in names, group \in groupInputs :
        Spawn(name, group) /\ scenario' = AfterSpawn(name, group)

CallDestroy ==
    \E spawn \in HeldHandles : Destroy(spawn) /\ scenario' = AfterDestroy(spawn)

CallWipe ==
    \E pointer \in 0..Len(pool) : Wipe(pointer) /\ scenario' = ScenarioOff

CallSpawnEntity == SpawnEntity /\ scenario' = ScenarioOff

CallDestroyEntity ==
    \E pointer \in 0..Len(entities) : DestroyEntity(pointer) /\ scenario' = ScenarioOff

CallWipeEntity ==
    \E pointer \in 0..Len(entities) : WipeEntity(pointer) /\ scenario' = ScenarioOff

CallGetEntity ==
    \E pointer \in 0..Len(entities), value \in HpInputs :
        GetEntityWrite(pointer, value) /\ scenario' = ScenarioOff

Next ==
    \/ Counted(MaxCalls) /\ CallSpawn(NameInputs, 0..MaxFactories)
    \/ Counted(MaxCalls) /\ CallDestroy
    \/ Counted(MaxCalls) /\ CallWipe
    \/ Counted(MaxCalls) /\ CallSpawnEntity
    \/ Counted(MaxCalls) /\ CallDestroyEntity
    \/ Counted(MaxCalls) /\ CallWipeEntity
    \/ Counted(MaxCalls) /\ CallGetEntity

Spec == Init /\ [][Next]_vars

----------------------------------------------------------------------------
(* The program of the section 8 scenario: a fresh Scene of capacity 2 with  *)
(* one group, and a caller that spawns under the names "a" to "d"           *)

InitScenario ==
    /\ variant = "scene"
    /\ result = NoResult
    /\ scenario = [step |-> 0, a |-> DefaultSpawn]
    /\ calls = 0
    /\ SceneNew(2, Registered(1))
    /\ entities = <<>> /\ p_free = <<>> /\ p_in_use = <<>>
    /\ NoUpdate(<<>>)

NextScenario ==
    \/ Counted(MaxScenarioCalls) /\ CallSpawn(Range(ScenarioNames), 0..1)
    \/ Counted(MaxScenarioCalls) /\ CallDestroy
    \/ Counted(MaxScenarioCalls) /\ CallWipe

SpecScenario == InitScenario /\ [][NextScenario]_vars

----------------------------------------------------------------------------
(* The program that runs update: an ECS of capacity 2 is built with its     *)
(* systems, the embedding program spawns up to capacity entities, and calls *)
(* update tick after tick                                                   *)

\* Scene::size and Pool::size
Size == IF variant = "scene" THEN Len(pool) ELSE Len(entities)

InitUpdate ==
    /\ variant \in {"scene", "pool"}
    /\ result = NoResult
    /\ scenario = ScenarioOff
    /\ calls = 0
    /\ IF variant = "scene"
       THEN /\ SceneNew(2, Registered(1))
            /\ entities = <<>> /\ p_free = <<>> /\ p_in_use = <<>>
       ELSE /\ PoolNew(2)
            /\ SceneNew(0, <<>>)
    /\ \E n \in 0..MaxSystems : NoUpdate(RegisteredSystems(variant, n))

NextUpdate ==
    \/ cursor.tick = 0 /\ Counted(Size) /\ CallSpawn(NameInputs, 0..(Len(factories) - 1))
    \/ cursor.tick = 0 /\ Counted(Size) /\ CallSpawnEntity
    \/ UpdateBegin
    \/ UpdateVisit
    \/ SystemSpawn
    \/ SystemDestroy
    \/ SystemWipe
    \/ SystemWrite
    \/ SystemReturn
    \/ UpdateNextSystem
    \/ PoolUpdateBegin
    \/ PoolUpdateVisit
    \/ SystemEdit
    \/ SystemTell
    \/ Deliver
    \/ PoolUpdateNextSystem

SpecUpdate == InitUpdate /\ [][NextUpdate]_vars

\* the steps ECS::update makes by itself: the loops go on, and a system's update
\* that was called returns
LoopStep ==
    \/ UpdateVisit
    \/ SystemReturn
    \/ UpdateNextSystem
    \/ PoolUpdateVisit
    \/ Deliver
    \/ PoolUpdateNextSystem

\* update() is one call on one thread: once called it is not suspended
SpecUpdateFair == SpecUpdate /\ WF_vars(LoopStep)

----------------------------------------------------------------------------
(* The program that borrows: a Scene of capacity 2, a caller that spawns    *)
(* while it holds no borrow, and code (a system's update, the embedding     *)
(* program) that takes and drops Refs and RefMuts of the slots and runs     *)
(* queries while it holds them. A panic ends the program.                   *)

InitBorrow ==
    /\ variant = "scene"
    /\ result = NoResult
    /\ scenario = ScenarioOff
    /\ calls = 0
    /\ SceneNew(2, Registered(1))
    /\ entities = <<>> /\ p_free = <<>> /\ p_in_use = <<>>
    /\ NoUpdate(<<>>)

\* one more call of code that may hold borrows, unless the program has panicked
Borrowing(bound) ==
    /\ result.ret # "panic"
    /\ calls < bound /\ calls' = calls + 1
    /\ UNCHANGED <<loopVars, scenario>>

\* a borrow guard goes out of scope
Dropping ==
    /\ result.ret # "panic"
    /\ UNCHANGED <<loopVars, scenario, calls>>

\* every slot of the pool
Slots == 0..(Len(pool) - 1)

NextBorrow ==
    \/ NoBorrows /\ result.ret # "panic" /\ Counted(Size) /\ CallSpawn(NameInputs, {0})
    \/ Borrowing(MaxBorrowCalls) /\ \E spawn \in HeldHandles : GetRef(spawn)
    \/ Borrowing(MaxBorrowCalls) /\ \E spawn \in HeldHandles : GetMut(spawn)
    \/ Borrowing(MaxBorrowCalls) /\ \E pointer \in Slots, hp \in HpInputs : WriteMut(pointer, hp)
    \/ Borrowing(MaxBorrowCalls) /\ \E matches \in SUBSET Slots : SearchComponents(matches)
    \/ Dropping /\ \E pointer \in Slots : DropRef(pointer)
    \/ Dropping /\ \E pointer \in Slots : DropMut(pointer)

SpecBorrow == InitBorrow /\ [][NextBorrow]_vars

----------------------------------------------------------------------------
(* The queries of Scene<T> (src/scene.rs) and Pool::find (src/pool.rs). A   *)
(* query changes nothing; `result` is what it returns and `log` the call,   *)
(* its input and the arguments its predicate was called with, in order. A   *)
(* predicate is given by the set of slots (pairs of slots) on whose payload *)
(* it is true.                                                              *)

\* a `for` loop that returns at the first element passing the test, `hits` being
\* the elements that pass: the 1-based index of that element, 0 when the loop
\* runs through
First(s, hits) ==
    IF \E i \in 1..Len(s) : s[i] \in hits
    THEN CHOOSE i \in 1..Len(s) : s[i] \in hits /\ \A j \in 1..(i - 1) : s[j] \notin hits
    ELSE 0

\* (mutant) the loop goes on after the first match
Evaluated_All(s, found) == s

\* the elements the loop has tested when it ends
Evaluated(s, found) == IF found = 0 THEN s ELSE SubSeq(s, 1, found)

\* Spawn::name: the 16 bytes of the name as a str, the zero bytes included
Name(spawn) == spawn.name

\* what a query leaves behind
Asked(call, input, evals) == <<LogEntry(call, 0, input, evals)>>

Answer(op, found, handle) ==
    IF found = 0
    THEN [op |-> op, ret |-> "None", out |-> DefaultSpawn]
    ELSE [op |-> op, ret |-> "Some", out |-> handle]

\* Scene::find_spawn
FindSpawn(name) ==
    /\ variant = "scene"
    /\ LET order == Pointers(in_use)
           Test(pointer) == Name(spawns[pointer + 1]) = name
           found == First(order, {x \in Range(order) : Test(x)})
       IN  /\ result' = Answer("find_spawn", found,
                               IF found = 0 THEN DefaultSpawn ELSE spawns[order[found] + 1])
           /\ log' = Asked("find_spawn", name, Evaluated(order, found))
    /\ UNCHANGED <<variant, itter_count, sceneVars, poolVars>>

\* Scene::find_spawn_in_group
FindSpawnInGroup(name, group) ==
    /\ variant = "scene"
    /\ IF group >= Len(groups)
       THEN /\ result' = Answer("find_spawn_in_group", 0, DefaultSpawn)
            /\ log' = Asked("find_spawn_in_group", [name |-> name, group |-> group], <<>>)
       ELSE LET order == groups[group + 1]
                Test(pointer) == Name(spawns[pointer + 1]) = name
                found == First(order, {x \in Range(order) : Test(x)})
            IN  /\ result' = Answer("find_spawn_in_group", found,
                                    IF found = 0 THEN DefaultSpawn
                                    ELSE spawns[order[found] + 1])
                /\ log' = Asked("find_spawn_in_group", [name |-> name, group |-> group],
                                Evaluated(order, found))
    /\ UNCHANGED <<variant, itter_count, sceneVars, poolVars>>

\* Scene::search_components, with what its predicate was called on
SearchComponentsLogged(matches) ==
    /\ SearchComponents(matches)
    /\ LET order == Pointers(in_use)
           Test(pointer) == pointer \in matches
       IN  log' = Asked("search_components", matches, Evaluated(order, First(order, {x \in Range(order) : Test(x)})))

\* Scene::search_components_in_group
SearchComponentsInGroup(group, matches) ==
    /\ variant = "scene"
    /\ IF group >= Len(groups)
       THEN /\ result' = Answer("search_components_in_group", 0, DefaultSpawn)
            /\ log' = Asked("search_components_in_group",
                            [matches |-> matches, group |-> group], <<>>)
       ELSE LET order == groups[group + 1]
                Test(pointer) == pointer \in matches
                found == First(order, {x \in Range(order) : Test(x)})
            IN  /\ result' = Answer("search_components_in_group", found,
                                    IF found = 0 THEN DefaultSpawn
                                    ELSE spawns[order[found] + 1])
                /\ log' = Asked("search_components_in_group",
                                [matches |-> matches, group |-> group],
                                Evaluated(order, found))
    /\ UNCHANGED <<variant, itter_count, sceneVars, poolVars>>

\* Scene::compare_against: every entry of in_use is compared with the reference
CompareAgainst(against, pairs) ==
    /\ variant = "scene"
    /\ LET order == [i \in 1..Len(in_use) |-> <<against, in_use[i]>>]
           Test(pair) == <<pair[1].pointer, pair[2].pointer>> \in pairs
           found == First(order, {x \in Range(order) : Test(x)})
       IN  IF in_use # <<>> /\ against.pointer >= Len(pool)
           THEN /\ result' = [op |-> "compare_against", ret |-> "panic", out |-> against]
                /\ log' = Asked("compare_against", against, <<>>)
           ELSE /\ result' = Answer("compare_against", found,
                                    IF found = 0 THEN DefaultSpawn ELSE order[found][2])
                /\ log' = Asked("compare_against", against, Evaluated(order, found))
    /\ UNCHANGED <<variant, itter_count, sceneVars, poolVars>>

\* the pairs of the two nested loops over in_use, outer loop first
NestedPairs ==
    LET n == Len(in_use)
    IN  [k \in 1..(n * n) |-> <<in_use[((k - 1) \div n) + 1], in_use[((k - 1) % n) + 1]>>]

\* (mutant) no pair is skipped
Compared_WithSelf(pairSeq) == pairSeq

\* `if spawn_a == spawn_b { continue; }`
Compared(pairSeq) == SelectSeq(pairSeq, LAMBDA pair : ~SpawnEq(pair[1], pair[2]))

\* Scene::compare_all
CompareAll(pairs) ==
    /\ variant = "scene"
    /\ LET order == Compared(NestedPairs)
           Test(pair) == <<pair[1].pointer, pair[2].pointer>> \in pairs
           found == First(order, {x \in Range(order) : Test(x)})
       IN  /\ result' = [op |-> "compare_all",
                         ret |-> IF found = 0 THEN "None" ELSE "Some",
                         out |-> IF found = 0 THEN <<>> ELSE order[found]]
           /\ log' = Asked("compare_all", pairs, Evaluated(order, found))
    /\ UNCHANGED <<variant, itter_count, sceneVars, poolVars>>

\* Scene::exists as a call
ExistsCall(spawn) ==
    /\ variant = "scene"
    /\ result' = [op |-> "exists", ret |-> IF Exists(spawn) THEN "true" ELSE "false",
                  out |-> spawn]
    /\ log' = Asked("exists", spawn, <<>>)
    /\ UNCHANGED <<variant, itter_count, sceneVars, poolVars>>

\* Scene::exists_in_group of src/scene.rs: self.groups[group] is indexed unguarded
ExistsInGroup(spawn, group) ==
    /\ variant = "scene"
    /\ result' = [op |-> "exists_in_group",
                  ret |-> IF group >= Len(groups) THEN "panic"
                          ELSE IF Position(groups[group + 1], spawn.pointer) # 0
                          THEN "true" ELSE "false",
                  out |-> spawn]
    /\ log' = Asked("exists_in_group", group, <<>>)
    /\ UNCHANGED <<variant, itter_count, sceneVars, poolVars>>

\* Pool::find: self.pool.iter().position(predicate)
PoolFind(matches) ==
    /\ variant = "pool"
    /\ LET order == [i \in 1..Len(entities) |-> i - 1]
           Test(index) == index \in matches
           found == First(order, {x \in Range(order) : Test(x)})
       IN  /\ result' = Answer("find", found,
                               [DefaultSpawn EXCEPT !.pointer =
                                    IF found = 0 THEN 0 ELSE order[found]])
           /\ log' = Asked("find", matches, Evaluated(order, found))
    /\ UNCHANGED <<variant, itter_count, sceneVars, poolVars>>

----------------------------------------------------------------------------
(* The program that asks: a Scene of capacity 2 with the Soldier and the    *)
(* Truck factory, or a Pool of 2 entities; a caller that spawns and         *)
(* destroys, and between these calls runs any query. A panic ends it.       *)

\* the names the caller uses: "a", a name of 16 bytes and one of 17
QueryNames == {<<97>>, [i \in 1..NameBytes |-> 98], [i \in 1..(NameBytes + 1) |-> 99]}

InitQuery ==
    /\ variant \in {"scene", "pool"}
    /\ result = NoResult
    /\ scenario = ScenarioOff
    /\ calls = 0
    /\ IF variant = "scene"
       THEN /\ SceneNew(2, Registered(2))
            /\ entities = <<>> /\ p_free = <<>> /\ p_in_use = <<>>
       ELSE /\ PoolNew(2)
            /\ SceneNew(0, <<>>)
    /\ NoUpdate(<<>>)

\* the last call was none of the queries. A query changes nothing but `result`
\* and `log`, which the next call overwrites: every call is taken from the state
\* the last spawn or destroy has left.
Prepared ==
    IF log = <<>> THEN TRUE
    ELSE log[1].call \in {"spawn", "destroy", "spawn_entity", "destroy_entity"}

\* one more spawn or destroy of the caller
Preparing(bound) ==
    /\ Prepared
    /\ calls < bound /\ calls' = calls + 1
    /\ UNCHANGED <<systems, cursor, hooks, borrows, scenario>>

\* a query of the caller
Querying ==
    /\ Prepared
    /\ UNCHANGED <<systems, cursor, hooks, borrows, scenario, calls>>

\* a handle of another Scene, one with more slots than this one
ForeignSpawn == [DefaultSpawn EXCEPT !.pointer = Len(pool)]

\* the predicates over pairs of slots
PairPredicates == SUBSET (Slots \X Slots)

NextQuery ==
    \/ Preparing(MaxQueryCalls) /\ \E name \in QueryNames, group \in 0..(Len(factories) - 1) :
          Spawn(name, group) /\ log' = Asked("spawn", name, <<>>)
    \/ Preparing(MaxQueryCalls) /\ \E spawn \in HeldHandles :
          Destroy(spawn) /\ log' = Asked("destroy", spawn, <<>>)
    \/ Preparing(MaxQueryCalls) /\ SpawnEntity /\ log' = Asked("spawn_entity", 0, <<>>)
    \/ Preparing(MaxQueryCalls) /\ \E pointer \in 0..(Len(entities) - 1) :
          DestroyEntity(pointer) /\ log' = Asked("destroy_entity", pointer, <<>>)
    \/ Querying /\ \E name \in QueryNames : FindSpawn(name)
    \/ Querying /\ \E name \in QueryNames, group \in 0..Len(groups) :
          FindSpawnInGroup(name, group)
    \/ Querying /\ \E matches \in SUBSET Slots : SearchComponentsLogged(matches)
    \/ Querying /\ \E group \in 0..Len(groups), matches \in SUBSET Slots :
          SearchComponentsInGroup(group, matches)
    \/ Querying /\ \E against \in HeldHandles, pairs \in PairPredicates :
          CompareAgainst(against, pairs)
    \/ Querying /\ \E pairs \in PairPredicates : CompareAll(pairs)
    \/ Querying /\ \E spawn \in HeldHandles : ExistsCall(spawn)
    \/ Querying /\ \E spawn \in HeldHandles, group \in 0..Len(groups) :
          ExistsInGroup(spawn, group)
    \/ Querying /\ \E matches \in SUBSET (0..(Len(entities) - 1)) : PoolFind(matches)
    \/ Querying /\ GetRef(ForeignSpawn) /\ log' = Asked("get_ref", ForeignSpawn, <<>>)
    \/ Querying /\ GetMut(ForeignSpawn) /\ log' = Asked("get_mut", ForeignSpawn, <<>>)
    \/ Querying /\ Wipe(Len(pool)) /\ log' = Asked("wipe", Len(pool), <<>>)

SpecQuery == InitQuery /\ [][NextQuery]_vars

----------------------------------------------------------------------------
(* The program of the Pool-based ECS with one system: a caller that spawns, *)
(* destroys and wipes entities between the update calls                     *)

InitEntities ==
    /\ variant = "pool"
    /\ result = NoResult
    /\ scenario = ScenarioOff
    /\ calls = 0
    /\ PoolNew(2)
    /\ SceneNew(0, <<>>)
    /\ NoUpdate(RegisteredSystems("pool", 1))

NextEntities ==
    \/ Counted(MaxEntityCalls) /\ CallSpawnEntity
    \/ Counted(MaxEntityCalls) /\ CallDestroyEntity
    \/ Counted(MaxEntityCalls) /\ CallWipeEntity
    \/ PoolUpdateBegin
    \/ PoolUpdateVisit
    \/ SystemEdit
    \/ SystemTell
    \/ SystemReturn
    \/ Deliver
    \/ PoolUpdateNextSystem

SpecEntities == InitEntities /\ [][NextEntities]_vars

----------------------------------------------------------------------------
(* The program that spawns and destroys in a Scene of capacity 3 with one   *)
(* group                                                                    *)

InitOrder ==
    /\ variant = "scene"
    /\ result = NoResult
    /\ scenario = ScenarioOff
    /\ calls = 0
    /\ SceneNew(3, Registered(1))
    /\ entities = <<>> /\ p_free = <<>> /\ p_in_use = <<>>
    /\ NoUpdate(<<>>)

NextOrder ==
    \/ Counted(MaxOrderCalls) /\ CallSpawn(NameInputs, {0})
    \/ Counted(MaxOrderCalls) /\ CallDestroy

SpecOrder == InitOrder /\ [][NextOrder]_vars

----------------------------------------------------------------------------
(* Health (src/example/components.rs, src/game/components.rs): current_hp   *)
(* and max_hp are u32. A u32 is kept as its two 16-bit halves, so that the  *)
(* wrap-around at 2^32 is the one of the machine.                           *)

Half == 65536

\* the u32 of a small number
U32(n) == [hi |-> 0, lo |-> n]

U32Less(a, b) == a.hi < b.hi \/ (a.hi = b.hi /\ a.lo < b.lo)

\* a - b modulo 2^32
U32WrappingSub(a, b) ==
    LET borrow == IF a.lo < b.lo THEN 1 ELSE 0
    IN  [hi |-> (a.hi - b.hi - borrow + Half) % Half, lo |-> (a.lo - b.lo + Half) % Half]

\* a + b modulo 2^32, and whether the sum passed 2^32
U32WrappingAdd(a, b) ==
    LET carry == (a.lo + b.lo) \div Half
    IN  [hi |-> (a.hi + b.hi + carry) % Half, lo |-> (a.lo + b.lo) % Half]

U32AddOverflows(a, b) == a.hi + b.hi + ((a.lo + b.lo) \div Half) >= Half

\* Health::from_hp
HealthFromHp(hp) == [active |-> TRUE, current_hp |-> U32(hp), max_hp |-> U32(hp)]

\* the amounts a caller passes to heal and damage
AmountInputs == {U32(3), U32(8)}

\* Health::damage on the component in the slot: `self.current_hp -= hp`. When hp
\* exceeds current_hp the subtraction overflows: a build with overflow checks
\* panics there, a build without them wraps around.
HealthDamage(pointer, hp) ==
    /\ variant = "scene"
    /\ LET health == pool[pointer + 1]
       IN  \/ /\ pool' = [pool EXCEPT ![pointer + 1].current_hp =
                              U32WrappingSub(health.current_hp, hp)]
              /\ result' = [op |-> "damage", ret |-> "Ok",
                            out |-> [DefaultSpawn EXCEPT !.pointer = pointer]]
           \/ /\ U32Less(health.current_hp, hp)
              /\ pool' = pool
              /\ result' = [op |-> "damage", ret |-> "panic",
                            out |-> [DefaultSpawn EXCEPT !.pointer = pointer]]
    /\ UNCHANGED <<factories, spawns, free, in_use, groups, issued>>
    /\ UNCHANGED <<variant, itter_count, poolVars>>

\* Health::heal: `self.current_hp += hp`, then the cap at max_hp; the addition
\* overflows the same way
HealthHeal(pointer, hp) ==
    /\ variant = "scene"
    /\ LET health == pool[pointer + 1]
           sum == U32WrappingAdd(health.current_hp, hp)
       IN  \/ /\ pool' = [pool EXCEPT ![pointer + 1].current_hp =
                              IF U32Less(health.max_hp, sum) THEN health.max_hp ELSE sum]
              /\ result' = [op |-> "heal", ret |-> "Ok",
                            out |-> [DefaultSpawn EXCEPT !.pointer = pointer]]
           \/ /\ U32AddOverflows(health.current_hp, hp)
              /\ pool' = pool
              /\ result' = [op |-> "heal", ret |-> "panic",
                            out |-> [DefaultSpawn EXCEPT !.pointer = pointer]]
    /\ UNCHANGED <<factories, spawns, free, in_use, groups, issued>>
    /\ UNCHANGED <<variant, itter_count, poolVars>>

\* a Scene of capacity 1 after spawn("a", 0): the slot holds the Health the
\* factory has built, of a Soldier or of a Truck
InitHealth ==
    /\ variant = "scene"
    /\ result = NoResult
    /\ scenario = ScenarioOff
    /\ calls = 0
    /\ \E kind \in {"Soldier", "Truck"} :
          /\ factories = <<kind>>
          /\ pool = <<HealthFromHp(IF kind = "Soldier" THEN SoldierHp ELSE TruckHp)>>
    /\ spawns = <<SpawnHandle(0, 0, <<97>>)>>
    /\ free = <<>>
    /\ in_use = spawns
    /\ groups = <<<<0, 0>>>>
    /\ issued = {spawns[1]}
    /\ itter_count = 0
    /\ entities = <<>> /\ p_free = <<>> /\ p_in_use = <<>>
    /\ NoUpdate(<<>>)

NextHealth ==
    \/ Borrowing(MaxHealthCalls) /\ UNCHANGED borrows
          /\ \E hp \in AmountInputs : HealthDamage(0, hp)
    \/ Borrowing(MaxHealthCalls) /\ UNCHANGED borrows
          /\ \E hp \in AmountInputs : HealthHeal(0, hp)

SpecHealth == InitHealth /\ [][NextHealth]_vars

----------------------------------------------------------------------------
(* The Iterator of the Scene (src/ecs/scene.rs, src/ecs/component.rs)       *)

\* what next() has yielded since the iteration began: itter_count is 0 exactly
\* before the first call of an iteration
Yielded == IF itter_count = 0 THEN <<>> ELSE log

\* Iterator::next: itter_count += 1 comes first, then in_use[itter_count]
\* (0-based) is yielded if there is one, else itter_count = 0 and None
IterNext ==
    /\ variant = "scene"
    /\ cursor.state = "idle"
    /\ LET count == itter_count + 1
       IN  IF count < Len(in_use)
           THEN /\ itter_count' = count
                /\ result' = [op |-> "next", ret |-> "Some", out |-> in_use[count + 1]]
                /\ log' = Append(Yielded, [call |-> "next", sys |-> 0,
                                           who |-> in_use[count + 1].pointer, arg |-> count])
           ELSE /\ itter_count' = 0
                /\ result' = [op |-> "next", ret |-> "None", out |-> DefaultSpawn]
                /\ log' = Yielded
    /\ UNCHANGED <<variant, sceneVars, poolVars, calls, scenario, systems, cursor,
                   hooks, borrows>>

\* a Scene of capacity 3 with one factory
InitIter ==
    /\ variant = "scene"
    /\ SceneNew(MaxIterSize, Registered(1))
    /\ entities = <<>> /\ p_free = <<>> /\ p_in_use = <<>>
    /\ result = NoResult
    /\ scenario = ScenarioOff
    /\ calls = 0
    /\ NoUpdate(<<>>)

\* spawn and destroy between two iterations (an iteration holds the Scene
\* mutably), next at any time
NextIter ==
    \/ itter_count = 0 /\ Counted(MaxIterCalls) /\ CallSpawn(NameInputs, {0})
    \/ itter_count = 0 /\ Counted(MaxIterCalls) /\ CallDestroy
    \/ IterNext

SpecIter == InitIter /\ [][NextIter]_vars

----------------------------------------------------------------------------
(* Vocabulary of the properties *)

\* every name a caller of either program passes to spawn
AllNames == NameInputs \cup Range(ScenarioNames)

\* the pointers of the active entities
InUsePointers == Range(Pointers(in_use))

\* no element occurs twice in the sequence
NoDuplicates(s) == \A i, j \in 1..Len(s) : i # j => s[i] # s[j]

\* the active handles whose group is g
ActiveInGroup(g) == {in_use[i].pointer : i \in {k \in 1..Len(in_use) : in_use[k].group = g}}

----------------------------------------------------------------------------
(* C1: after every call of spawn, destroy or wipe, successful or failing,   *)
(* on a Scene or on a Pool of capacity N, the length of the free list plus  *)
(* the length of the in_use list is N.                                      *)

C1_CapacityInvariant ==
    /\ variant = "scene" => Len(free) + Len(in_use) = Len(pool)
    /\ variant = "pool" => Len(p_free) + Len(p_in_use) = Len(entities)

\* a spawn failed on a full Scene of capacity 2 after an entity had been destroyed
C1_Witness ==
    /\ variant = "scene"
    /\ Len(pool) = 2
    /\ result.op = "spawn" /\ result.ret = "Overflow"
    /\ \E h \in issued : h.pointer \in InUsePointers /\ h \notin Range(in_use)

----------------------------------------------------------------------------
(* C2: in every reachable state of a Scene no pointer is in both the free   *)
(* list and the in_use list, and no pointer occurs twice in the free list   *)
(* or twice in the in_use list, also after destroy calls with handles that  *)
(* were already destroyed.                                                  *)

C2_NoDoubleAllocation ==
    variant = "scene" =>
        /\ Range(free) \cap InUsePointers = {}
        /\ NoDuplicates(free)
        /\ NoDuplicates(Pointers(in_use))

\* destroy was just called with a handle spawn had returned and that was
\* destroyed before, while another entity is active
C2_Witness ==
    /\ variant = "scene"
    /\ result.op = "destroy" /\ result.ret = "NotActive"
    /\ result.out \in issued
    /\ result.out.pointer \in Range(free)
    /\ in_use # <<>>

----------------------------------------------------------------------------
(* C3: in every reachable state of a Scene, starting right after           *)
(* Scene::new, the bucket of group g holds exactly the pointers of the      *)
(* active spawns whose group is g: every active pointer is in exactly one   *)
(* bucket, the one of its Spawn.group, and an inactive pointer is in none.  *)

C3_BucketsMatchActive ==
    variant = "scene" =>
        \A g \in 0..(Len(groups) - 1) :
            /\ Range(groups[g + 1]) = ActiveInGroup(g)
            /\ NoDuplicates(groups[g + 1])

----------------------------------------------------------------------------
(* C4: spawn with a registered group returns Overflow exactly when the      *)
(* free list is empty, which is when capacity entities are active; a spawn  *)
(* that returns Overflow leaves free, in_use, the group buckets, the spawn  *)
(* table and every payload unchanged; and after one destroy of an active    *)
(* entity the free list is not empty, so that spawn succeeds again.         *)

C4_OverflowStep ==
    /\ \A name \in AllNames, group \in 0..MaxFactories :
          (Spawn(name, group) /\ group < Len(factories)) =>
              /\ (result'.ret = "Overflow") <=> (free = <<>>)
              /\ (result'.ret = "Overflow") <=> (Len(in_use) = Len(pool))
              /\ result'.ret \in {"Ok", "Overflow"}
              /\ result'.ret = "Overflow" =>
                    UNCHANGED <<free, in_use, groups, spawns, pool, factories>>
    /\ \A spawn \in HeldHandles :
          (Destroy(spawn) /\ Exists(spawn)) => free' # <<>>

C4_Overflow == [][C4_OverflowStep]_vars

\* the third spawn on a Scene of capacity 2 returned Overflow
C4_Witness ==
    /\ variant = "scene"
    /\ Len(pool) = 2 /\ calls = 3
    /\ result.op = "spawn" /\ result.ret = "Overflow"
    /\ Len(in_use) = 2 /\ free = <<>>

----------------------------------------------------------------------------
(* C5: spawn(name, g) with g at or above the number of registered           *)
(* factories returns GroupNotFound whether or not the pool is full, and     *)
(* leaves free, in_use, the group buckets, the spawn table and every        *)
(* payload unchanged; spawn returns no error but Overflow and GroupNotFound.*)

C5_GroupNotFoundStep ==
    \A name \in AllNames, group \in 0..MaxFactories :
        Spawn(name, group) =>
            /\ result'.ret \in {"Ok", "Overflow", "GroupNotFound"}
            /\ (result'.ret = "GroupNotFound") <=> (group >= Len(factories))
            /\ result'.ret = "GroupNotFound" =>
                  UNCHANGED <<free, in_use, groups, spawns, pool, factories>>

C5_GroupNotFound == [][C5_GroupNotFoundStep]_vars

\* spawn returned GroupNotFound on a full Scene that has a registered group
C5_Witness ==
    /\ variant = "scene"
    /\ result.op = "spawn" /\ result.ret = "GroupNotFound"
    /\ free = <<>> /\ Len(in_use) = 2 /\ Len(factories) >= 1

----------------------------------------------------------------------------
(* C6: destroy(h) for a handle whose pointer is not in in_use changes       *)
(* nothing: free, in_use, the group buckets, the spawn table and all        *)
(* payloads stay as they are (for the Pool: free, in_use and the payloads). *)
(* After any destroy(h) the pointer of h is not in in_use, so a second      *)
(* destroy(h) is such a call, and no destroy puts a pointer into the free   *)
(* list twice.                                                              *)

C6_DestroyInactiveStep ==
    /\ \A spawn \in HeldHandles :
          Destroy(spawn) =>
              /\ ~Exists(spawn) =>
                    UNCHANGED <<free, in_use, groups, spawns, pool, factories>>
              /\ spawn.pointer \notin InUsePointers'
              /\ NoDuplicates(free')
    /\ \A pointer \in 0..Len(entities) :
          DestroyEntity(pointer) =>
              /\ ~PoolExists(pointer) => UNCHANGED <<p_free, p_in_use, entities>>
              /\ pointer \notin Range(p_in_use')
              /\ NoDuplicates(p_free')

C6_DestroyInactive == [][C6_DestroyInactiveStep]_vars

\* a handle spawn had returned was destroyed a second time on a Scene of capacity 1
C6_Witness ==
    /\ variant = "scene"
    /\ Len(pool) = 1 /\ calls = 3
    /\ result.op = "destroy" /\ result.ret = "NotActive"
    /\ result.out \in issued
    /\ free = <<0>>

----------------------------------------------------------------------------
(* C7: a successful Scene::spawn(name, g) replaces the payload of the       *)
(* acquired slot by what the factory registered at index g builds from the  *)
(* new handle, whatever payload a previous occupant left there; the handle  *)
(* returned has a pointer in [0, capacity), group g, and exists(handle) is  *)
(* true right after the call.                                               *)

C7_SpawnBuildsStep ==
    \A name \in AllNames, group \in 0..MaxFactories :
        (Spawn(name, group) /\ result'.ret = "Ok") =>
            LET handle == result'.out
            IN  /\ handle.pointer \in 0..(Len(pool) - 1)
                /\ handle.pointer = VecLast(free)
                /\ handle.group = group
                /\ pool'[handle.pointer + 1] = Build(factories[group + 1], handle)
                /\ \A q \in 1..Len(pool) : q # handle.pointer + 1 => pool'[q] = pool[q]
                /\ \E i \in 1..Len(in_use') : SpawnEq(in_use'[i], handle)

C7_SpawnBuilds == [][C7_SpawnBuildsStep]_vars

\* a spawn into the Truck group succeeded on a slot a Soldier had occupied before
C7_Witness ==
    /\ variant = "scene"
    /\ result.op = "spawn" /\ result.ret = "Ok"
    /\ factories[result.out.group + 1] = "Truck"
    /\ pool[result.out.pointer + 1] = FromHp(TruckHp)
    /\ \E h \in issued : h.pointer = result.out.pointer /\ factories[h.group + 1] = "Soldier"

----------------------------------------------------------------------------
(* C8: on a fresh Scene of capacity 2 with one group, spawn("a",0) returns  *)
(* pointer 0, spawn("b",0) returns pointer 1, spawn("c",0) returns          *)
(* Err(Overflow), and after destroy(a) the next spawn("d",0) returns        *)
(* pointer 0 again, the freed slot reused and its payload rebuilt by the    *)
(* factory.                                                                 *)

\* the claim as stated
C8_ScenarioAsStated ==
    /\ scenario.step = 1 => result.ret = "Ok" /\ result.out.pointer = 0
    /\ scenario.step = 2 => result.ret = "Ok" /\ result.out.pointer = 1
    /\ scenario.step = 3 => result.ret = "Overflow"
    /\ scenario.step = 5 => result.ret = "Ok" /\ result.out.pointer = 0

\* C8 as amended: the free list is a stack holding 0 below 1, so "a" gets
\* pointer 1 and "b" pointer 0; "c" overflows; after destroy(a), "d" gets the
\* pointer of "a", 1, again, with the payload the factory builds
C8_ScenarioAmended ==
    /\ scenario.step = 1 => result.ret = "Ok" /\ result.out.pointer = 1
    /\ scenario.step = 2 => result.ret = "Ok" /\ result.out.pointer = 0
    /\ scenario.step = 3 => result.ret = "Overflow"
    /\ scenario.step = 4 => free = <<scenario.a.pointer>>
    /\ scenario.step = 5 =>
          /\ result.ret = "Ok"
          /\ result.out.pointer = 1
          /\ result.out.pointer = scenario.a.pointer
          /\ pool[result.out.pointer + 1] = Build(factories[1], result.out)
          /\ free = <<>>

\* the five calls of the scenario were made
C8_Witness ==
    /\ scenario.step = 5
    /\ calls = 5
    /\ result.op = "spawn"
    /\ result.out.name = NewName(ScenarioNames[4])

----------------------------------------------------------------------------
(* C9: destroy(h) of an active handle moves h.pointer from in_use to free,  *)
(* removes it from its group bucket, and leaves the payload of every slot,  *)
(* the destroyed one included, unchanged.                                   *)

C9_DestroyActiveStep ==
    \A spawn \in HeldHandles :
        (Destroy(spawn) /\ spawn \in Range(in_use)) =>
            /\ spawn.pointer \notin InUsePointers'
            /\ spawn.pointer \in Range(free')
            /\ spawn.pointer \notin Range(groups'[spawn.group + 1])
            /\ pool' = pool

C9_DestroyActive == [][C9_DestroyActiveStep]_vars

----------------------------------------------------------------------------
(* C10: for every pointer p in [0, capacity), active, destroyed or never    *)
(* spawned, after wipe(p) the payload of slot p is the default payload, and *)
(* free, in_use, the group buckets and the payloads of all other slots are  *)
(* unchanged (Scene::wipe, and Pool::wipe under ECS::wipe_entity).          *)

C10_WipeStep ==
    /\ \A pointer \in 0..(Len(pool) - 1) :
          Wipe(pointer) =>
              /\ pool'[pointer + 1] = DefaultPayload
              /\ \A q \in 1..Len(pool) : q # pointer + 1 => pool'[q] = pool[q]
              /\ Len(pool') = Len(pool)
              /\ UNCHANGED <<free, in_use, groups>>
    /\ \A pointer \in 0..(Len(entities) - 1) :
          WipeEntity(pointer) =>
              /\ entities'[pointer + 1] = DefaultEntity
              /\ \A q \in 1..Len(entities) : q # pointer + 1 => entities'[q] = entities[q]
              /\ Len(entities') = Len(entities)
              /\ UNCHANGED <<p_free, p_in_use>>

C10_Wipe == [][C10_WipeStep]_vars

\* an active slot was wiped while the other slot kept the payload of a
\* destroyed entity
C10_Witness ==
    /\ variant = "scene"
    /\ Len(pool) = 2
    /\ result.op = "wipe" /\ result.ret = "Ok"
    /\ result.out.pointer \in InUsePointers
    /\ pool[result.out.pointer + 1] = DefaultPayload
    /\ \E q \in 0..1 : q \in Range(free) /\ pool[q + 1] # DefaultPayload

----------------------------------------------------------------------------
(* Vocabulary of the properties of ECS::update: what the log of a tick says *)

\* the entries of the calls `call` made for system number k, in order
Calls(call, k) == SelectSeq(log, LAMBDA e : e.call = call /\ e.sys = k)

\* the list the pass of system k iterates, as taken when the pass started
SnapshotCall == IF variant = "scene" THEN "spawn_list" ELSE "edit_all"
Started(k) == Calls(SnapshotCall, k) # <<>>
SnapshotOf(k) == Calls(SnapshotCall, k)[1].arg

\* what the pass of system k has visited so far, in order: the handles its
\* requirements were evaluated for (Scene), the slots its update was called on (Pool)
Visited(k) ==
    IF variant = "scene"
    THEN LET E == Calls("requirements", k) IN [i \in 1..Len(E) |-> E[i].who]
    ELSE LET E == Calls("update", k) IN [i \in 1..Len(E) |-> E[i].arg]

\* the hooks told during the pass of system k and the hooks its flush has handed
\* to an event handler, in order
AsHook(e) == [sender |-> e.arg.sender, receiver |-> e.who, event |-> e.arg.event]
Told(k) == LET E == Calls("tell", k) IN [i \in 1..Len(E) |-> AsHook(E[i])]
Handled(k) == LET E == Calls("event_handler", k) IN [i \in 1..Len(E) |-> AsHook(E[i])]

\* the hooks of a queue whose receiver is a slot of the pool
ToSlots(queue) == SelectSeq(queue, LAMBDA h : h.receiver < Len(entities))

\* the pointers destroyed before entry j of the log and not spawned again since
GoneBefore(j) ==
    {log[i].who.pointer : i \in {d \in 1..(j - 1) :
        /\ log[d].call = "destroy" /\ log[d].arg = "Destroyed"
        /\ \A b \in (d + 1)..(j - 1) :
              ~(/\ log[b].call = "spawn" /\ log[b].arg = "Ok"
                /\ log[b].who.pointer = log[d].who.pointer)}}

\* the pointers spawned during the pass of log[j].sys before entry j of the log
BornBefore(j) ==
    {log[i].who.pointer : i \in {b \in 1..(j - 1) :
        log[b].call = "spawn" /\ log[b].arg = "Ok" /\ log[b].sys = log[j].sys}}

----------------------------------------------------------------------------
(* C11: within one update(), systems run in registration order with a       *)
(* barrier between them: no call of system k follows a call of system k+1   *)
(* in the same tick, and the first call of system k+1 happens only after    *)
(* system k has visited every handle of its snapshot and, in the messenger  *)
(* variant, after the hooks queued by system k were delivered.              *)

C11_SystemBarrier ==
    /\ \A i, j \in 1..Len(log) : i < j => log[i].sys <= log[j].sys
    /\ \A k \in 1..Len(systems) :
          Started(k + 1) =>
              /\ Visited(k) = SnapshotOf(k)
              /\ variant = "pool" => Handled(k) = ToSlots(Told(k))

\* a tick of the messenger variant is over in which the first of two systems
\* visited two entities and had a hook delivered before the second system ran
C11_Witness ==
    /\ variant = "pool"
    /\ cursor.state = "idle" /\ cursor.tick >= 1
    /\ Len(systems) = 2
    /\ Len(Visited(1)) = 2 /\ Len(Visited(2)) = 2
    /\ Handled(1) # <<>>

----------------------------------------------------------------------------
(* C12: if entity X is destroyed during system A's pass before A has        *)
(* visited it, A's pass still visits X's handle from the snapshot captured  *)
(* at the start of the pass, a copy that later spawn and destroy calls do   *)
(* not change, while the snapshot taken for the next system B does not      *)
(* contain X.                                                               *)

\* the loop has left the pass of system k
Left(k) == Started(k + 1) \/ (cursor.state = "idle" /\ Started(k))

\* entry d of the log is a destroy that deactivated an entity
Destroyed(d) == log[d].call = "destroy" /\ log[d].arg = "Destroyed"

C12_SnapshotIsolation ==
    variant = "scene" =>
        /\ cursor.state # "idle" => cursor.snapshot = SnapshotOf(cursor.sys)
        /\ \A d \in 1..Len(log) :
              (Destroyed(d) /\ Left(log[d].sys)) =>
                  LET k == log[d].sys
                      seen == Cardinality({j \in 1..d : log[j].call = "requirements"
                                                        /\ log[j].sys = k})
                  IN  \A i \in (seen + 1)..Len(SnapshotOf(k)) :
                          SnapshotOf(k)[i].pointer = log[d].who.pointer =>
                              \E j \in (d + 1)..Len(log) :
                                  /\ log[j].call = "requirements" /\ log[j].sys = k
                                  /\ log[j].who = SnapshotOf(k)[i]
        /\ \A j \in 1..Len(log) :
              log[j].call = "spawn_list" =>
                  Range(Pointers(log[j].arg)) \cap GoneBefore(j) = {}

\* the first system destroyed an entity before visiting it, visited its handle
\* all the same, and the snapshot of the second system is without it
C12_Witness ==
    /\ variant = "scene"
    /\ Started(2)
    /\ \E d \in 1..Len(log) :
          /\ Destroyed(d) /\ log[d].sys = 1
          /\ \E j \in (d + 1)..Len(log) :
                /\ log[j].call = "requirements" /\ log[j].sys = 1
                /\ log[j].who.pointer = log[d].who.pointer
          /\ log[d].who.pointer \notin Range(Pointers(SnapshotOf(2)))
          /\ SnapshotOf(2) # <<>>

----------------------------------------------------------------------------
(* C13: an entity spawned during system A's pass does not enter A's         *)
(* snapshot: A's pass never evaluates its predicate on, nor updates, the    *)
(* payload of an entity spawned during that same pass, also when the spawn  *)
(* reuses the slot of an entity destroyed earlier in the pass, and the      *)
(* entity is in the snapshot of the next system B.                          *)

\* the pass never visits the slot of an entity spawned during the pass
C13_NoVisitOfSpawned ==
    \A j \in 1..Len(log) :
        log[j].call \in {"requirements", "update"} =>
            log[j].who.pointer \notin BornBefore(j)

\* an entity spawned during a pass and not destroyed since is in the snapshot
\* of the next system
C13_InNextSnapshot ==
    \A j \in 1..Len(log) :
        log[j].call = "spawn_list" =>
            \A b \in 1..(j - 1) :
                (/\ log[b].call = "spawn" /\ log[b].arg = "Ok"
                 /\ log[b].sys + 1 = log[j].sys
                 /\ log[b].who.pointer \notin GoneBefore(j)) =>
                    log[b].who.pointer \in Range(Pointers(log[j].arg))

C13_SpawnedNotVisited ==
    variant = "scene" => C13_NoVisitOfSpawned /\ C13_InNextSnapshot

----------------------------------------------------------------------------
(* C14: in each system's pass every handle of the snapshot is visited       *)
(* exactly once, in snapshot order, and the system's update is invoked for  *)
(* a handle if and only if the system's requirements are true on the        *)
(* payload of that slot as it is at the moment of the visit.                *)

C14_VisitOnceInOrder ==
    variant = "scene" =>
        /\ cursor.state # "idle" =>
              Visited(cursor.sys) = SubSeq(cursor.snapshot, 1, cursor.at)
        /\ \A k \in 1..Len(systems) : Left(k) => Visited(k) = SnapshotOf(k)
        /\ \A j \in 1..Len(log) :
              /\ log[j].call = "requirements" =>
                    IF log[j].arg
                    THEN /\ j < Len(log)
                         /\ log[j + 1] = LogEntry("update", log[j].sys, log[j].who, TRUE)
                    ELSE j = Len(log) \/ log[j + 1].call # "update"
              /\ log[j].call = "update" =>
                    /\ j > 1
                    /\ log[j - 1] = LogEntry("requirements", log[j].sys, log[j].who, TRUE)
        /\ LET n == Len(log)
           IN  /\ (n > 0 /\ log[n].call = "requirements") =>
                     log[n].arg = pool[log[n].who.pointer + 1].active
               /\ (n > 0 /\ log[n].call = "update") =>
                     pool[log[n].who.pointer + 1].active

\* a slot was wiped during a pass before its visit, and the visit of its
\* handle found the requirements false and called no update
C14_Witness ==
    /\ variant = "scene"
    /\ \E i \in 1..Len(log) :
          /\ log[i].call = "wipe" /\ log[i].arg = "Ok"
          /\ \E j \in (i + 1)..Len(log) :
                /\ log[j].call = "requirements" /\ log[j].sys = log[i].sys
                /\ log[j].who.pointer = log[i].who.pointer
                /\ ~log[j].arg
                /\ \E u \in 1..(i - 1) : log[u].call = "update" /\ log[u].sys = log[i].sys

----------------------------------------------------------------------------
(* C15: event delivery is deferred: during a system's pass over the         *)
(* entities no event handler is invoked and tell() changes no payload; all  *)
(* hooks queued during system k's pass are delivered after that pass has    *)
(* visited every entity and before the first update call of system k+1,     *)
(* for the last system before update() returns.                             *)

\* in the log of a tick no update, edit or tell of a system follows an event
\* handler called for the same system, and a pass the loop has left has had
\* every hook told in it handed to its receiver
C15_HandlersAfterPass ==
    variant = "pool" =>
        /\ \A i, j \in 1..Len(log) :
              (i < j /\ log[i].call = "event_handler" /\ log[i].sys = log[j].sys) =>
                  log[j].call = "event_handler"
        /\ \A k \in 1..Len(systems) :
              /\ Handled(k) # <<>> => Visited(k) = p_in_use
              /\ Left(k) => Len(Handled(k)) = Len(ToSlots(Told(k)))

\* a step that queues a hook changes no payload, and a step that changes the
\* payload of a slot other than the one being updated is a delivery
C15_DeferredStep ==
    variant = "pool" =>
        /\ Len(hooks') > Len(hooks) => entities' = entities
        /\ \A q \in 1..Len(entities) :
              (entities'[q] # entities[q] /\ cursor.state # "idle") =>
                  \/ cursor.state = "update" /\ q = UpdatedIndex + 1
                  \/ /\ cursor.state = "pass" /\ cursor.at = Len(p_in_use)
                     /\ Len(Handled(cursor.sys)') = Len(Handled(cursor.sys)) + 1

C15_Deferred == []C15_HandlersAfterPass /\ [][C15_DeferredStep]_vars

\* the first of two systems told a Heal to slot 0 while updating the entity of
\* another slot; the handler ran after the pass and before the second system
C15_Witness ==
    /\ variant = "pool"
    /\ Len(p_in_use) = 2
    /\ Started(2) /\ Calls("update", 2) # <<>>
    /\ \E t \in 1..Len(log) :
          /\ log[t].call = "tell" /\ log[t].sys = 1 /\ log[t].who = 0
          /\ log[t].arg.sender # 0 /\ log[t].arg.event.kind = "Heal"
          /\ \E u \in (t + 1)..Len(log) : log[u].call = "update" /\ log[u].sys = 1
    /\ Len(Handled(1)) = 1

----------------------------------------------------------------------------
(* C16: hooks are delivered in tell() call order with one handler           *)
(* invocation per hook: if tell(S,R,e1) precedes tell(S,R,e2) in the same   *)
(* pass, R's event handler is invoked with e1 before e2, and n hooks to the *)
(* same receiver cause exactly n handler invocations, with no coalescing    *)
(* and no reordering across senders or receivers.                           *)

C16_DeliveryOrder ==
    variant = "pool" =>
        \A k \in 1..Len(systems) :
            LET told == ToSlots(Told(k))
                handled == Handled(k)
            IN  /\ Len(handled) <= Len(told)
                /\ handled = SubSeq(told, 1, Len(handled))
                /\ Left(k) => handled = told

\* one sender told Heal and then Say to the same receiver in one pass, and the
\* receiver's handler was called twice, with Heal first
C16_Witness ==
    /\ variant = "pool"
    /\ cursor.state = "idle"
    /\ \E k \in 1..Len(systems) :
          /\ Len(Handled(k)) = 2
          /\ Handled(k)[1].event.kind = "Heal" /\ Handled(k)[2].event.kind = "Say"
          /\ Handled(k)[1].sender = Handled(k)[2].sender
          /\ Handled(k)[1].receiver = Handled(k)[2].receiver

----------------------------------------------------------------------------
(* C17: every hook queued by tell() is delivered exactly once: a hook       *)
(* queued in one system's pass is not delivered again after a later         *)
(* system's pass nor in a later update() call, and the queue holds no hook  *)
(* from an earlier pass when a system's pass starts (a sender telling       *)
(* Heal(8) once per tick raises the receiver's value by exactly 8 per       *)
(* tick). A hook whose receiver is not a slot of the pool has no handler.   *)

\* the number of entries of a sequence equal to x
Count(seq, x) == Cardinality({i \in 1..Len(seq) : seq[i] = x})

----------------------------------------------------------------------------
(* C18: the borrow discipline of the slots *)

\* the slot a get_ref / get_mut step is about
BorrowedSlot == result'.out.pointer + 1

\* the step is a call of Scene::get_ref or Scene::get_mut
BorrowStep(op) == calls' = calls + 1 /\ result'.op = op

\* a failed borrow: fatal, and nothing of the Scene has changed
FailedBorrow == result'.ret = "panic" /\ UNCHANGED <<sceneVars, borrows>>

\* a borrow that was granted touches the count of its own slot only
GrantedBorrow(field) ==
    /\ result'.ret = "Ok"
    /\ borrows'[BorrowedSlot][field] = borrows[BorrowedSlot][field] + 1
    /\ \A i \in 1..Len(borrows) : i # BorrowedSlot => borrows'[i] = borrows[i]
    /\ UNCHANGED sceneVars

C18_Discipline ==
    variant = "scene" =>
        \A i \in 1..Len(borrows) :
            /\ borrows[i].exclusive <= 1
            /\ borrows[i].exclusive = 1 => borrows[i].shared = 0

C18_BorrowStep ==
    /\ BorrowStep("get_mut") =>
          IF borrows[BorrowedSlot].shared > 0 \/ borrows[BorrowedSlot].exclusive > 0
          THEN FailedBorrow
          ELSE GrantedBorrow("exclusive")
    /\ BorrowStep("get_ref") =>
          IF borrows[BorrowedSlot].exclusive > 0
          THEN FailedBorrow
          ELSE GrantedBorrow("shared")

\* C18: in every reachable state each slot has no borrow, some shared borrows or
\* exactly one exclusive borrow; get_mut on a slot with any outstanding borrow
\* and get_ref on a slot with an outstanding exclusive borrow fail fatally and
\* change no payload and no bookkeeping; whatever is borrowed of the other slots,
\* a borrow that does not conflict on its own slot is granted.
C18_SlotAccess == []C18_Discipline /\ [][C18_BorrowStep]_vars

\* get_mut has just failed on a slot two readers hold, while the other slot is
\* exclusively borrowed
C18_Witness ==
    /\ variant = "scene" /\ Len(borrows) = 2
    /\ result.op = "get_mut" /\ result.ret = "panic"
    /\ borrows[result.out.pointer + 1] = [shared |-> 2, exclusive |-> 0]
    /\ \E i \in 1..2 : borrows[i] = [shared |-> 0, exclusive |-> 1]

----------------------------------------------------------------------------
(* C19: what a system may do while it holds the RefMut of its entity *)

\* the pointers of the active entities
ActivePointers == {in_use[i].pointer : i \in 1..Len(in_use)}

\* the code holds the RefMut of the active entity at `pointer`, as a system's
\* update does with the entity it was called for, and no other borrow
HoldsTarget(pointer) ==
    /\ variant = "scene"
    /\ pointer \in ActivePointers
    /\ borrows[pointer + 1] = [shared |-> 0, exclusive |-> 1]
    /\ \A i \in 1..Len(borrows) : i # pointer + 1 => borrows[i] = Unborrowed

C19_QueryStep ==
    \A pointer \in 0..(Len(borrows) - 1) :
        HoldsTarget(pointer) =>
            /\ (/\ BorrowStep("get_ref") \/ BorrowStep("get_mut")
                /\ result'.out.pointer \in ActivePointers \ {pointer})
               => result'.ret = "Ok"
            /\ (calls' = calls + 1 /\ result'.op = "search_components")
               => result'.ret \in {"Some", "None"}

\* C19: while a system holds the exclusive borrow of the entity being updated,
\* get_ref and get_mut of a different active entity are granted and a
\* search_components over the active entities returns (Some or None) without
\* an aliasing failure.
C19_UpdateCanQuery == [][C19_QueryStep]_vars

\* the first half alone: the borrow of a different active entity is granted
C19_OtherEntityStep ==
    \A pointer \in 0..(Len(borrows) - 1) :
        (/\ HoldsTarget(pointer)
         /\ BorrowStep("get_ref") \/ BorrowStep("get_mut")
         /\ result'.out.pointer \in ActivePointers \ {pointer})
        => result'.ret = "Ok"

C19_OtherEntity == [][C19_OtherEntityStep]_vars

----------------------------------------------------------------------------
(* Vocabulary of the properties of the queries *)

\* the last call was `op` and returned Some
Found(op) == result.op = op /\ result.ret = "Some"

\* the input of the last call and what its predicate was called on
Input == log[1].who
Evals == log[1].arg

\* the entity at the pointer is active
Active(pointer) == \E i \in 1..Len(in_use) : in_use[i].pointer = pointer

----------------------------------------------------------------------------
(* C21: group-scoped queries *)

GroupScoped(op) ==
    Found(op) => /\ result.out.group = Input.group
                 /\ Active(result.out.pointer)

\* C21: search_components_in_group(g, pred) and find_spawn_in_group(name, g)
\* return only handles of group g and only handles of active entities.
C21_GroupScopedQueries ==
    /\ GroupScoped("search_components_in_group")
    /\ GroupScoped("find_spawn_in_group")

----------------------------------------------------------------------------
(* C22: a group id that is not below the number of groups *)

C22_NotFound ==
    /\ (/\ result.op \in {"search_components_in_group", "find_spawn_in_group"}
        /\ Input.group >= Len(groups))
       => result.ret = "None"
    /\ (result.op = "exists_in_group" /\ Input >= Len(groups))
       => result.ret = "false"

C22_QueryStep ==
    result'.op \in {"search_components_in_group", "find_spawn_in_group", "exists_in_group"}
        => UNCHANGED <<sceneVars, borrows>>

\* C22: for a group id greater than or equal to the number of groups,
\* search_components_in_group and find_spawn_in_group return None and
\* exists_in_group returns false, without a fatal error and without changing
\* the Scene.
C22_UnknownGroup == []C22_NotFound /\ [][C22_QueryStep]_vars

\* the two guarded queries alone
C22_GuardedQueries ==
    (/\ result.op \in {"search_components_in_group", "find_spawn_in_group"}
     /\ Input.group >= Len(groups))
    => result.ret = "None"

----------------------------------------------------------------------------
(* C23: Scene::search_components *)

\* s is the beginning of t
IsPrefix(s, t) == Len(s) <= Len(t) /\ \A i \in 1..Len(s) : s[i] = t[i]

\* C23: search_components(pred) calls pred on payloads of active entities only,
\* in the order of the active list, and on none after the first match; it
\* returns the handle of the first active entity whose payload satisfies pred,
\* and None exactly when no active entity satisfies it.
C23_FirstMatch ==
    result.op = "search_components" =>
        /\ IsPrefix(Evals, Pointers(in_use))
        /\ \A i \in 1..(Len(Evals) - 1) : Evals[i] \notin Input
        /\ result.ret \in {"Some", "None"}
        /\ result.ret = "Some" =>
              /\ Evals # <<>>
              /\ Evals[Len(Evals)] = result.out.pointer
              /\ result.out.pointer \in Input
              /\ result.out \in Range(in_use)
        /\ result.ret = "None" <=> \A i \in 1..Len(in_use) : in_use[i].pointer \notin Input

\* both active entities satisfy the predicate: the first of the active list is
\* returned and the predicate was not called on the second
C23_Witness ==
    /\ result.op = "search_components" /\ result.ret = "Some"
    /\ Len(in_use) = 2
    /\ Input = {in_use[1].pointer, in_use[2].pointer}
    /\ result.out = in_use[1]
    /\ Evals = <<in_use[1].pointer>>

----------------------------------------------------------------------------
(* C24: Scene::compare_all *)

\* the pairs (i, j) of positions in the active list that come before (a, b) in
\* the order of the nested loops
Before(a, b) ==
    {pos \in (1..Len(in_use)) \X (1..Len(in_use)) :
        pos[1] < a \/ (pos[1] = a /\ pos[2] < b)}

\* the predicate holds of the entities at positions i and j of the active list
Holds(i, j) == <<in_use[i].pointer, in_use[j].pointer>> \in Input

\* C24: compare_all(pred) never calls pred on an entity paired with itself and
\* never returns a pair (a, a); it returns the first pair of distinct active
\* entities, outer then inner active-list order, that satisfies pred, and None
\* when there is none, also when fewer than two entities are active.
C24_CompareAll ==
    result.op = "compare_all" =>
        /\ \A k \in 1..Len(Evals) :
              /\ Evals[k][1].pointer # Evals[k][2].pointer
              /\ Evals[k][1] \in Range(in_use) /\ Evals[k][2] \in Range(in_use)
        /\ result.ret \in {"Some", "None"}
        /\ result.ret = "Some" =>
              \E a, b \in 1..Len(in_use) :
                  /\ a # b
                  /\ result.out = <<in_use[a], in_use[b]>>
                  /\ Holds(a, b)
                  /\ \A pos \in Before(a, b) : pos[1] # pos[2] => ~Holds(pos[1], pos[2])
        /\ result.ret = "None" <=>
              \A a, b \in 1..Len(in_use) : a # b => ~Holds(a, b)

\* two active entities and a predicate that is true of every pair, the pairs
\* of an entity with itself included: the pair returned is the first and the
\* second of the active list
C24_Witness ==
    /\ result.op = "compare_all" /\ result.ret = "Some"
    /\ Len(in_use) = 2
    /\ Input = Slots \X Slots
    /\ result.out = <<in_use[1], in_use[2]>>

----------------------------------------------------------------------------
(* C25: Scene::compare_against *)

\* C25: compare_against(reference, pred) with an active reference never calls
\* pred on the reference paired with itself and never returns the reference's
\* own handle.
C25_OthersOnly ==
    (result.op = "compare_against" /\ Active(Input.pointer)) =>
        /\ \A k \in 1..Len(Evals) : Evals[k][2].pointer # Input.pointer
        /\ result.ret = "Some" => result.out.pointer # Input.pointer

----------------------------------------------------------------------------
(* C26: Scene::exists as the test of a handle *)

\* C26: for a handle h that spawn has returned, exists(h) is true while the
\* entity spawned as h is active, and false once h has been destroyed, also
\* after later spawns have reused the slot: exists(h) is true exactly when h is
\* the handle of an active entity.
C26_ExistsTracksHandle ==
    (result.op = "exists" /\ Input \in issued) =>
        (result.ret = "true" <=> Input \in Range(in_use))

\* as long as no slot is used a second time the answer is right
C26_UntilReuse ==
    (/\ result.op = "exists" /\ Input \in issued
     /\ \A h \in issued : h.pointer = Input.pointer => h = Input)
    => (result.ret = "true" <=> Input \in Range(in_use))

----------------------------------------------------------------------------
(* C27: pointers and the capacity *)

\* every pointer the Scene has handed out or keeps is below the capacity
C27_PointersInRange ==
    variant = "scene" =>
        /\ \A i \in 1..Len(free) : free[i] \in Slots
        /\ \A i \in 1..Len(in_use) : in_use[i].pointer \in Slots
        /\ \A g \in 1..Len(groups) : \A i \in 1..Len(groups[g]) : groups[g][i] \in Slots
        /\ \A h \in issued : h.pointer \in Slots

\* the last call was a slot access with a pointer that is not below the capacity
PastTheEnd ==
    /\ variant = "scene"
    /\ result.op \in {"get_ref", "get_mut", "wipe"}
    /\ result.out.pointer >= Len(pool)

C27_AccessStep ==
    result'.op \in {"get_ref", "get_mut", "wipe"} /\ result'.out.pointer >= Len(pool)
        => UNCHANGED <<sceneVars, borrows>>

\* C27: get_ref, get_mut and wipe with a pointer greater than or equal to the
\* capacity yield the OutOfBounds error and leave the Scene unchanged; every
\* pointer handed out by spawn or kept in free, in_use or a bucket is below
\* the capacity.
C27_BoundsChecked ==
    /\ [](PastTheEnd => result.ret = "OutOfBounds")
    /\ []C27_PointersInRange
    /\ [][C27_AccessStep]_vars

----------------------------------------------------------------------------
(* C28: the name of a handle *)

\* the last call was a spawn that returned a handle
Spawned == result.op = "spawn" /\ result.ret = "Ok"

\* C28: the name stored by spawn(name, g) is exactly 16 bytes, the first
\* min(len, 16) bytes of the given name followed by zero bytes, in the handle
\* returned, in the spawn table and in the active list; nothing of the name the
\* slot had before is left.
C28_StoredName ==
    Spawned =>
        /\ Len(result.out.name) = NameBytes
        /\ \A i \in 1..NameBytes :
              result.out.name[i] = IF i <= Len(Input) THEN Input[i] ELSE 0
        /\ spawns[result.out.pointer + 1].name = result.out.name
        /\ in_use[Len(in_use)].name = result.out.name

\* a slot whose earlier name had more than one byte has been spawned again
\* under the name "a"
C28_Witness ==
    /\ Spawned
    /\ Len(Input) = 1
    /\ \E h \in issued : h.pointer = result.out.pointer /\ h.name[2] # 0

----------------------------------------------------------------------------
(* C29: finding an entity by the name it was spawned with *)

\* the active entities that were spawned under the name, in a group of `scope`
SpawnedAs(name, scope) ==
    {i \in 1..Len(in_use) : in_use[i].name = NewName(name) /\ in_use[i].group \in scope}

RoundTrip(name, scope) ==
    /\ (Len(name) <= NameBytes /\ SpawnedAs(name, scope) # {}) =>
          /\ result.ret = "Some"
          /\ \E i \in SpawnedAs(name, scope) : result.out = in_use[i]
    /\ result.ret = "None" => SpawnedAs(name, scope) = {}

\* C29: while an entity spawned by spawn(name, g) with a name of at most 16
\* bytes is active, find_spawn(name) returns an active handle spawned with that
\* name and find_spawn_in_group(name, g) one of group g; find_spawn returns None
\* only when no active entity was spawned with the name.
C29_NameRoundTrip ==
    /\ result.op = "find_spawn" => RoundTrip(Input, 0..Len(groups))
    /\ (result.op = "find_spawn_in_group" /\ Input.group < Len(groups))
          => RoundTrip(Input.name, {Input.group})

\* names of exactly 16 bytes are found by find_spawn
C29_SixteenBytes ==
    (result.op = "find_spawn" /\ Len(Input) = NameBytes) => RoundTrip(Input, 0..Len(groups))

----------------------------------------------------------------------------
(* C30: Pool::find *)

\* the active entities of the Pool that satisfy the predicate of the last call
ActiveMatches == {pointer \in Input : PoolExists(pointer)}

\* C30: Pool::find(pred) returns a pointer that exists, the first active entity
\* that satisfies pred, and None when no active entity satisfies pred: a slot
\* that was never spawned or has been destroyed is not returned.
C30_FindsActive ==
    result.op = "find" =>
        /\ result.ret = "Some" =>
              /\ PoolExists(result.out.pointer)
              /\ result.out.pointer \in ActiveMatches
              /\ \A pointer \in ActiveMatches : result.out.pointer <= pointer
        /\ ActiveMatches = {} => result.ret = "None"

\* what holds of the code: the first slot of the pool that satisfies pred
C30_FirstSlot ==
    result.op = "find" =>
        /\ result.ret = "Some" =>
              /\ result.out.pointer \in Input
              /\ \A pointer \in Input : result.out.pointer <= pointer
        /\ result.ret = "None" <=> Input = {}

----------------------------------------------------------------------------
(* C31: the pointer a system is given *)

\* C31: in the Pool-based ECS the pointer passed to System::update, which the
\* system uses as the sender of its events, is the pool index of the entity
\* whose components are passed in the same call.
C31_PointerIsIndex ==
    variant = "pool" =>
        \A k \in 1..Len(log) : log[k].call = "update" => log[k].who = log[k].arg

----------------------------------------------------------------------------
(* C32: update() runs to completion *)

\* ECS::update has been called and has not returned
Updating == cursor.state # "idle"

\* C32: every update() call returns, given that every system update and event
\* handler it calls returns, also when updates spawn, destroy and respawn
\* entities during a pass.
C32_Terminates == Updating ~> ~Updating

\* an update() has returned in which a system spawned an entity during its pass
C32_Witness ==
    /\ ~Updating /\ cursor.tick >= 1
    /\ \E k \in 1..Len(log) : log[k].call = "spawn" /\ log[k].arg = "Ok"

----------------------------------------------------------------------------
(* C33: hooks whose receiver is not active *)

\* the step takes the next hook of the queue
Flushing == variant = "pool" /\ cursor'.delivered = cursor.delivered + 1

\* the hook that step takes
Flushed == hooks[cursor.delivered + 1]

\* what the handler of ExampleComponents adds to the value
Raise(event) == IF event.kind = "Heal" THEN event.hp ELSE 0

C33_FlushStep ==
    /\ Flushing =>
          /\ hooks' = hooks
          /\ IF Flushed.receiver < Len(entities)
             THEN /\ entities' = [entities EXCEPT ![Flushed.receiver + 1].value =
                                      @ + Raise(Flushed.event)]
                  /\ Handled(cursor.sys)' = Append(Handled(cursor.sys), Flushed)
             ELSE /\ entities' = entities
                  /\ Handled(cursor.sys)' = Handled(cursor.sys)
    /\ (variant = "pool" /\ cursor.state = "pass" /\ cursor'.sys # cursor.sys)
          => cursor.delivered = Len(hooks)

\* C33: a hook whose receiver is below the capacity has the receiver's event
\* handler called on the payload the slot holds, whether or not the receiver is
\* active at the flush; a hook whose receiver is at or above the capacity is
\* dropped without a failure; in both cases the flush goes on with the next
\* hook and ends only when it has taken every hook of the queue.
C33_InactiveReceiver == [][C33_FlushStep]_vars

\* the caller destroyed entity 0 before the update; in it a hook to a pointer
\* past the pool was dropped and the Heal told after it has raised the value of
\* the destroyed entity
C33_Witness ==
    /\ variant = "pool"
    /\ result.op = "destroy_entity" /\ result.ret = "Destroyed" /\ result.out.pointer = 0
    /\ ~PoolExists(0)
    /\ Len(Told(1)) = 2
    /\ Told(1)[1].receiver = Len(entities)
    /\ Told(1)[2].receiver = 0 /\ Told(1)[2].event.kind = "Heal"
    /\ Handled(1) = <<Told(1)[2]>>
    /\ entities[1].value = HealHp

----------------------------------------------------------------------------
(* C34: destroy with the handle of an entity that is gone *)

\* the step is destroy(h)
Destroying(h) == calls' = calls + 1 /\ result'.op = "destroy" /\ result'.out = h

C34_StaleStep ==
    \A h \in issued :
        (variant = "scene" /\ Destroying(h) /\ h \notin Range(in_use))
            => UNCHANGED <<in_use, free, groups>>

\* C34: destroy(h) with a handle h whose entity was already destroyed leaves
\* in_use, free and every group bucket unchanged, also when the slot of h has
\* been taken by a later spawn, possibly of another group: that later entity
\* stays active.
C34_DestroyOwnOnly == [][C34_StaleStep]_vars

\* while the slot of h has not been spawned again, destroy(h) of a destroyed h
\* changes nothing
C34_FreeSlotStep ==
    \A h \in issued :
        (variant = "scene" /\ Destroying(h) /\ ~Exists(h))
            => UNCHANGED <<in_use, free, groups>>

C34_FreeSlot == [][C34_FreeSlotStep]_vars

----------------------------------------------------------------------------
(* C35: the order of the active list *)

\* the sequence without its i-th element
Without(s, i) == [j \in 1..(Len(s) - 1) |-> IF j < i THEN s[j] ELSE s[j + 1]]

C35_OrderStep ==
    variant = "scene" =>
        IF result'.op = "spawn" /\ result'.ret = "Ok" /\ calls' = calls + 1
        THEN in_use' = in_use \o <<result'.out>>
        ELSE \/ in_use' = in_use
             \/ /\ result'.op = "destroy"
                /\ \E i \in 1..Len(in_use) : in_use' = Without(in_use, i)

\* C35: spawn appends the new handle at the end of in_use and destroy removes
\* one handle and keeps the relative order of the others, so the active list,
\* which list_spawned returns, is in the order of the spawns.
C35_SpawnOrder == [](ListSpawned = in_use) /\ [][C35_OrderStep]_vars

\* the first of three active entities has been destroyed; the second and the
\* third spawned are listed in this order
C35_Witness ==
    /\ variant = "scene"
    /\ calls = 4 /\ result.op = "destroy" /\ result.ret = "Destroyed"
    /\ result.out.pointer = 2
    /\ Pointers(in_use) = <<1, 0>>


----------------------------------------------------------------------------
(* C36 *)

\* the Health in the slot the last heal or damage call was about
HealthOf(slots) == slots[1]

\* a step of Health::damage that asks for more than current_hp
C36_OverkillStep ==
    LET before == HealthOf(pool).current_hp
    IN  (result'.op = "damage" /\ calls' = calls + 1
         /\ \E hp \in AmountInputs :
               /\ U32Less(before, hp)
               /\ \/ HealthOf(pool').current_hp = U32WrappingSub(before, hp)
                  \/ result'.ret = "panic")
        => (result'.ret = "Ok" /\ HealthOf(pool').current_hp = U32(0))

\* C36: Health::damage(hp) never takes current_hp below 0: when hp is greater
\* than current_hp the call ends with current_hp = 0, without wrap-around and
\* without an arithmetic failure, and current_hp <= max_hp always holds.
C36_DamageSaturates ==
    /\ [](result.op = "damage" => result.ret = "Ok")
    /\ [](~U32Less(HealthOf(pool).max_hp, HealthOf(pool).current_hp))
    /\ [][C36_OverkillStep]_vars


----------------------------------------------------------------------------
(* C37 *)

\* the pointers of a list of handles, in its order
PointersOf(handles) == [i \in 1..Len(handles) |-> handles[i].pointer]

\* the pointers next() has yielded in the iteration that has just ended
YieldedPointers == [i \in 1..Len(log) |-> log[i].who]

\* C37: an iteration of the Scene yields the pointer of every active spawn
\* exactly once, in in_use order, before next() returns None; after the None
\* the following iteration starts again from the first active spawn.
C37_YieldsEveryActive ==
    (result.op = "next" /\ result.ret = "None")
        => (YieldedPointers = PointersOf(in_use) /\ itter_count = 0)

====
